---------------------------- MODULE AccessProofs ----------------------------
(***************************************************************************)
(* Proofs about Access: the lists agree with the checks, an account that   *)
(* is settled is the one asked for, and a client of wait_sms misses no     *)
(* message, for any modems, permissions, orders and bounds.                *)
(***************************************************************************)
EXTENDS Access, FiniteSetTheorems, WellFoundedInduction, TLAPS

\* The type invariant with the shape of the records.
Requests == [allowed : SUBSET Names, rules : RuleSets]
Updates == [at : {"idle", "hash", "save", "clear", "insert"}, row : Rows,
            hash : 0 .. MaxOps, order : Requests, todo : SUBSET Names]
Waits == [at : {"idle", "start", "poll"}, allowed : SUBSET Names, after : 0 .. Unset]
Clients == [holds : BOOLEAN, filter : Filters, base : 0 .. Unset, after : 0 .. Unset,
            got : SUBSET (1 .. MaxSMS)]
Orderings == [row : Rows, rules : RuleSets]

Shape ==
    /\ update \in [Handlers -> Updates]
    /\ wait \in Waits /\ client \in Clients /\ ordered \in Orderings

TypeInv == TypeOK /\ Shape

\* What was asked for, at each step of the handler of the last order.
LastOrderObeyed(u) ==
    /\ u.at \notin {"clear", "insert"} => rules = ordered.rules
    /\ u.at \in {"clear", "insert"} => ordered.rules = Kept(u.order)
    /\ u.at = "insert" => rules = Only(Kept(u.order), Names \ u.todo)

Obeyed ==
    /\ ~lost => row = ordered.row
    /\ ~torn => LastOrderObeyed(update[latest])

\* Where the client is in the SMS table.
Following ==
    /\ client.base = Unset <=> client.after = Unset
    /\ client.after # Unset => client.after <= Len(sms)
    /\ wait.at = "start" => wait.after = client.after
    /\ wait.at = "poll" => /\ wait.after # Unset /\ wait.after <= Len(sms)
                           /\ client.after \in {Unset, wait.after}

IInv == TypeInv /\ Obeyed /\ Following /\ NothingSkipped

-----------------------------------------------------------------------------
(* Rules.                                                                  *)

\* A set of rules gives permissions to names.
LEMMA RuleSetsFacts ==
  ASSUME NEW f
  PROVE  f \in RuleSets <=> \E names \in SUBSET Names : f \in [names -> SUBSET Perms]
  BY DEF RuleSets

\* A part of a set of rules is one.
LEMMA OnlyRules ==
  ASSUME NEW f \in RuleSets, NEW names
  PROVE  /\ Only(f, names) \in RuleSets
         /\ DOMAIN Only(f, names) = DOMAIN f \cap names
         /\ \A n \in DOMAIN f \cap names : Only(f, names)[n] = f[n]
         /\ DOMAIN f \subseteq Names
  <1>1. PICK D \in SUBSET Names : f \in [D -> SUBSET Perms] BY RuleSetsFacts
  <1>2. Only(f, names) \in [D \cap names -> SUBSET Perms] BY <1>1 DEF Only
  <1>3. D \cap names \in SUBSET Names BY <1>1
  <1>. QED BY <1>1, <1>2, <1>3, RuleSetsFacts DEF Only

LEMMA NoRulesFacts == NoRules \in RuleSets /\ DOMAIN NoRules = {}
  <1>1. {} \in SUBSET Names /\ NoRules \in [{} -> SUBSET Perms] BY DEF NoRules
  <1>. QED BY <1>1, RuleSetsFacts DEF NoRules

LEMMA KeptRules ==
  ASSUME NEW o \in Requests
  PROVE  /\ Kept(o) \in RuleSets /\ DOMAIN Kept(o) \subseteq Names
         /\ DOMAIN Kept(o) \subseteq DOMAIN o.rules
         /\ \A n \in DOMAIN Kept(o) : Kept(o)[n] = o.rules[n]
  <1>1. o.rules \in RuleSets BY DEF Requests
  <1>2. PICK names : Kept(o) = Only(o.rules, names) BY DEF Kept
  <1> DEFINE f == o.rules
             g == Only(f, names)
  <1>3. /\ g \in RuleSets /\ DOMAIN g = DOMAIN f \cap names /\ DOMAIN f \subseteq Names
        /\ \A n \in DOMAIN f \cap names : g[n] = f[n]
    <2> HIDE DEF f
    <2>1. f \in RuleSets BY <1>1 DEF f
    <2>. QED BY <2>1, OnlyRules
  <1>. QED BY <1>2, <1>3

\* A rule is inserted.
LEMMA InsertRule ==
  ASSUME NEW f \in RuleSets, NEW n \in Names, NEW v \in SUBSET Perms
  PROVE  [m \in DOMAIN f \cup {n} |-> IF m = n THEN v ELSE f[m]] \in RuleSets
  <1>1. PICK D \in SUBSET Names : f \in [D -> SUBSET Perms] BY RuleSetsFacts
  <1>2. D \cup {n} \in SUBSET Names BY <1>1
  <1>3. [m \in D \cup {n} |-> IF m = n THEN v ELSE f[m]] \in [D \cup {n} -> SUBSET Perms]
    BY <1>1
  <1>4. DOMAIN f = D BY <1>1
  <1>. QED BY <1>2, <1>3, <1>4, RuleSetsFacts

-----------------------------------------------------------------------------
(* Types.                                                                  *)

LEMMA ConstantRecords ==
  /\ NoRow \in Rows
  /\ NoUpdate \in Updates /\ NoUpdate.at = "idle" /\ NoUpdate.todo = {}
  /\ NoWait \in Waits /\ NoWait.at = "idle"
  <1>1. Unset \in 0 .. Unset BY AccessAssumption DEF Unset
  <1>. QED BY <1>1, AccessAssumption, NoRulesFacts
           DEF NoRow, Rows, NoUpdate, Updates, Requests, NoWait, Waits

\* A handler goes on to v.
LEMMA NewUpdate ==
  ASSUME TypeInv, NEW h \in Handlers, NEW v \in Updates, v.todo \subseteq DOMAIN Kept(v.order),
         update' = [update EXCEPT ![h] = v]
  PROVE  /\ update' \in [Handlers -> Updates] /\ update'[h] = v
         /\ \A g \in Handlers : g # h => update'[g] = update[g]
         /\ \A g \in Handlers : update'[g].todo \subseteq DOMAIN Kept(update'[g].order)
  <1>1. update \in [Handlers -> Updates] BY DEF TypeInv, Shape
  <1>2. \A g \in Handlers : update[g].todo \subseteq DOMAIN Kept(update[g].order)
    BY DEF TypeInv, TypeOK
  <1>3. /\ update' \in [Handlers -> Updates] /\ update'[h] = v
        /\ \A g \in Handlers : g # h => update'[g] = update[g]
    BY <1>1
  <1>. QED BY <1>2, <1>3

\* The types follow from those of what a handler or an administrator changes.
LEMMA AccountTypes ==
  ASSUME TypeInv, UNCHANGED <<role, key, wait, client>>,
         update' \in [Handlers -> Updates],
         \A g \in Handlers : update'[g].todo \subseteq DOMAIN Kept(update'[g].order),
         row' \in Rows, rules' \in RuleSets, sms' \in Seq(SIMs \cup {Gone}), Len(sms') <= MaxSMS,
         ops' \in 0 .. MaxOps, ordered' \in Orderings, latest' \in Handlers,
         lost' \in BOOLEAN, torn' \in BOOLEAN
  PROVE  TypeInv'
  <1>1. Shape' BY DEF TypeInv, Shape
  <1>2. \A h \in Handlers :
          /\ update'[h].at \in {"idle", "hash", "save", "clear", "insert"}
          /\ update'[h].row \in Rows /\ update'[h].hash \in 0 .. MaxOps
    BY DEF Updates
  <1>3. \A h \in Handlers : (update[h].todo \subseteq DOMAIN Kept(update[h].order))'
    BY DEF Kept, Only
  <1>. QED BY <1>1, <1>2, <1>3 DEF TypeInv, TypeOK

\* What the type invariant says of one handler.
LEMMA HandlerTypes ==
  ASSUME TypeInv, NEW h \in Handlers
  PROVE  /\ update[h] \in Updates /\ update[h].order \in Requests
         /\ update[h].todo \subseteq DOMAIN Kept(update[h].order)
         /\ Kept(update[h].order) \in RuleSets
         /\ DOMAIN Kept(update[h].order) \subseteq Names
         /\ \A n \in DOMAIN Kept(update[h].order) :
              Kept(update[h].order)[n] = update[h].order.rules[n]
  <1>1. update[h] \in Updates BY DEF TypeInv, Shape
  <1>2. update[h].order \in Requests BY <1>1 DEF Updates
  <1>. QED BY <1>1, <1>2, KeptRules DEF TypeInv, TypeOK

LEMMA InitTypeInv == Init => TypeInv
  <1> SUFFICES ASSUME Init PROVE TypeInv
    OBVIOUS
  <1> USE AccessAssumption
  <1> DEFINE h == CHOOSE g \in Handlers : TRUE
  <1>0. h \in Handlers OBVIOUS
  <1>1. PICK order \in Orders :
          /\ row = [live |-> TRUE, allowed |-> order.allowed, hash |-> 0]
          /\ update = [g \in Handlers |->
                         IF g = h THEN [NoUpdate EXCEPT !.at = "clear", !.order = order]
                         ELSE NoUpdate]
          /\ ordered = [row |-> row, rules |-> Kept(order)]
          /\ role \in {"admin", "user"} /\ rules = NoRules
          /\ key = [state |-> "none", flags |-> {}]
          /\ sms = <<>> /\ wait = NoWait
          /\ client \in [holds : {FALSE}, filter : Filters, base : {Unset},
                         after : {Unset}, got : {{}}]
          /\ ops = 0 /\ latest = h /\ lost = FALSE /\ torn = FALSE
    BY DEF Init
  <1> HIDE DEF h
  <1>2. order \in Requests BY DEF Requests
  <1>3. row \in Rows BY <1>1, <1>2 DEF Rows, Requests
  <1>4. Kept(order) \in RuleSets BY <1>2, KeptRules
  <1> DEFINE first == [NoUpdate EXCEPT !.at = "clear", !.order = order]
  <1>5. first \in Updates /\ first.todo = {} BY <1>2, ConstantRecords DEF Updates
  <1>6. \A g \in Handlers : update[g] \in {first, NoUpdate} BY <1>1
  <1> HIDE DEF first
  <1>7. /\ update \in [Handlers -> Updates]
        /\ \A g \in Handlers : update[g] \in Updates /\ update[g].todo = {}
    BY <1>1, <1>5, <1>6, ConstantRecords
  <1>8. client \in Clients
    <2>1. Unset \in 0 .. Unset BY DEF Unset
    <2>. QED BY <1>1, <2>1 DEF Clients
  <1>9. Shape BY <1>1, <1>3, <1>4, <1>7, <1>8, ConstantRecords DEF Shape, Orderings
  <1>10. TypeOK
    <2>1. sms \in Seq(SIMs \cup {Gone}) /\ Len(sms) <= MaxSMS BY <1>1
    <2>2. ops \in 0 .. MaxOps BY <1>1
    <2>3. \A g \in Handlers :
            /\ update[g].at \in {"idle", "hash", "save", "clear", "insert"}
            /\ update[g].row \in Rows /\ update[g].hash \in 0 .. MaxOps
            /\ update[g].todo \subseteq DOMAIN Kept(update[g].order)
      BY <1>7 DEF Updates
    <2>4. wait \in Waits BY <1>1, ConstantRecords
    <2>5. /\ wait.at \in {"idle", "start", "poll"} /\ wait.allowed \subseteq Names
          /\ wait.after \in 0 .. Unset
      BY <2>4 DEF Waits
    <2>6. /\ client.holds \in BOOLEAN /\ client.filter \in Filters
          /\ client.base \in 0 .. Unset /\ client.after \in 0 .. Unset
          /\ client.got \subseteq 1 .. MaxSMS
      BY <1>8 DEF Clients
    <2>. QED BY <1>0, <1>1, <1>3, <2>1, <2>2, <2>3, <2>5, <2>6, NoRulesFacts DEF TypeOK
  <1>. QED BY <1>9, <1>10 DEF TypeInv

\* The steps of a handler.
LEMMA HandleTypeInv ==
  ASSUME TypeInv, NEW h \in Handlers, Handle(h)
  PROVE  TypeInv'
  <1> USE AccessAssumption DEF account, history
  <1> DEFINE u == update[h]
             kept == Kept(u.order)
  <1>0. /\ ordered \in Orderings /\ row \in Rows /\ rules \in RuleSets
        /\ sms \in Seq(SIMs \cup {Gone}) /\ Len(sms) <= MaxSMS
        /\ ops \in 0 .. MaxOps /\ latest \in Handlers /\ lost \in BOOLEAN /\ torn \in BOOLEAN
    BY DEF TypeInv, TypeOK, Shape
  <1>1. /\ u \in Updates /\ u.order \in Requests
        /\ u.todo \subseteq DOMAIN kept /\ kept \in RuleSets /\ DOMAIN kept \subseteq Names
        /\ \A n \in DOMAIN kept : kept[n] = u.order.rules[n]
    BY HandlerTypes
  <1>2. /\ u.row \in Rows /\ u.hash \in 0 .. MaxOps /\ u.todo \subseteq Names
        /\ u.order.allowed \subseteq Names
    BY <1>1 DEF Updates, Requests
  <1>3. NoUpdate \in Updates /\ NoUpdate.todo \subseteq DOMAIN Kept(NoUpdate.order)
    BY ConstantRecords
  <1>4. ASSUME NEW order \in Orders, UpdateUserPermissions(h, order) PROVE TypeInv'
    <2> DEFINE v == [NoUpdate EXCEPT !.at = "save", !.row = row, !.order = order]
    <2>1. order \in Requests BY DEF Requests
    <2>2. v \in Updates /\ v.todo = {} BY <1>0, <2>1, ConstantRecords DEF Updates
    <2>3. /\ update' = [update EXCEPT ![h] = v] /\ ops' \in 0 .. MaxOps
          /\ UNCHANGED <<role, row, rules, key, sms, wait, client, ordered, latest, lost, torn>>
      BY <1>0, <1>4 DEF UpdateUserPermissions, Operation
    <2> HIDE DEF v
    <2>. QED BY <1>0, <2>2, <2>3, NewUpdate, AccountTypes
  <1>5. CASE UpdateSave(h)
    <2> DEFINE v == [u EXCEPT !.at = "clear"]
    <2>1. /\ row' = [u.row EXCEPT !.allowed = u.order.allowed]
          /\ update' = [update EXCEPT ![h].at = "clear"]
          /\ ordered' = [row |-> [ordered.row EXCEPT !.allowed = u.order.allowed], rules |-> kept]
          /\ lost' \in BOOLEAN /\ torn' \in BOOLEAN /\ latest' = h
          /\ UNCHANGED <<role, rules, key, sms, wait, client, ops>>
      BY <1>5 DEF UpdateSave
    <2>2. row' \in Rows BY <1>2, <2>1 DEF Rows
    <2>3. ordered' \in Orderings BY <1>0, <1>1, <1>2, <2>1 DEF Orderings, Rows
    <2>4. v \in Updates /\ v.todo = u.todo /\ v.order = u.order BY <1>1 DEF Updates
    <2>5. update' = [update EXCEPT ![h] = v] BY <2>1
    <2> HIDE DEF v
    <2>6. v.todo \subseteq DOMAIN Kept(v.order) BY <1>1, <2>4
    <2>. QED BY <1>0, <2>1, <2>2, <2>3, <2>4, <2>5, <2>6, NewUpdate, AccountTypes
  <1>6. CASE ReplaceClear(h)
    <2> DEFINE todo == DOMAIN kept
               v == IF todo = {} THEN NoUpdate ELSE [u EXCEPT !.at = "insert", !.todo = todo]
    <2>1. /\ UNCHANGED <<role, row, key, sms, wait, client, ops, ordered, latest, lost>>
          /\ rules' = NoRules /\ torn' \in BOOLEAN /\ update' = [update EXCEPT ![h] = v]
      BY <1>6 DEF ReplaceClear
    <2>2. v \in Updates /\ v.todo \subseteq DOMAIN Kept(v.order)
      <3>1. CASE todo = {} BY <1>3, <3>1
      <3>2. CASE todo # {}
        <4>1. v = [u EXCEPT !.at = "insert", !.todo = todo] BY <3>2
        <4>2. v \in Updates /\ v.todo = todo /\ v.order = u.order
          BY <1>1, <4>1 DEF Updates
        <4>. QED BY <4>2
      <3>. QED BY <3>1, <3>2
    <2> HIDE DEF v
    <2>. QED BY <1>0, <2>1, <2>2, NoRulesFacts, NewUpdate, AccountTypes
  <1>7. ASSUME NEW n \in Names, ReplaceInsert(h, n) PROVE TypeInv'
    <2> DEFINE left == u.todo \ {n}
               v == IF left = {} THEN NoUpdate ELSE [u EXCEPT !.todo = left]
    <2>1. /\ UNCHANGED <<role, row, key, sms, wait, client, ops, ordered, latest, lost>>
          /\ n \in u.todo /\ torn' \in BOOLEAN /\ update' = [update EXCEPT ![h] = v]
          /\ rules' = [m \in DOMAIN rules \cup {n} |->
                          IF m = n THEN u.order.rules[n] ELSE rules[m]]
      <3>1. /\ UNCHANGED <<role, row, key, sms, wait, client, ops, ordered, latest, lost>>
            /\ n \in u.todo /\ torn' = (torn \/ Disturbs(h))
        BY <1>7, Zenon DEF ReplaceInsert
      <3>2. torn' \in BOOLEAN BY <3>1
      <3>3. rules' = [m \in DOMAIN rules \cup {n} |->
                         IF m = n THEN u.order.rules[n] ELSE rules[m]]
        BY <1>7, Zenon DEF ReplaceInsert
      <3>4. update' = [update EXCEPT ![h] = v] BY <1>7 DEF ReplaceInsert
      <3>. QED BY <3>1, <3>2, <3>3, <3>4
    <2>2. u.order.rules[n] \in SUBSET Perms
      <3>1. n \in DOMAIN kept /\ kept[n] = u.order.rules[n] BY <1>1, <2>1
      <3>2. kept[n] \in SUBSET Perms
        <4> HIDE DEF kept
        <4>. QED BY <1>1, <3>1, RuleSetsFacts
      <3>. QED BY <3>1, <3>2
    <2>3. rules' \in RuleSets BY <1>0, <2>1, <2>2, InsertRule
    <2>4. v \in Updates /\ v.todo \subseteq DOMAIN Kept(v.order)
      <3>1. CASE left = {} BY <1>3, <3>1
      <3>2. CASE left # {}
        <4>1. v = [u EXCEPT !.todo = left] BY <3>2
        <4>2. v \in Updates /\ v.todo = u.todo \ {n} /\ v.order = u.order
          BY <1>1, <4>1 DEF Updates
        <4>. QED BY <1>1, <4>2
      <3>. QED BY <3>1, <3>2
    <2> HIDE DEF v
    <2>. QED BY <1>0, <2>1, <2>3, <2>4, NewUpdate, AccountTypes
  <1>8. CASE ReplaceCollides(h) \/ ReplaceFails(h)
    <2>1. /\ UNCHANGED <<role, row, rules, key, sms, wait, client, ordered, latest, lost>>
          /\ update' = [update EXCEPT ![h] = NoUpdate] /\ torn' \in BOOLEAN
          /\ ops' \in 0 .. MaxOps
      <3>1. CASE ReplaceCollides(h)
        <4>1. torn' \in BOOLEAN BY <3>1, Zenon DEF ReplaceCollides
        <4>. QED BY <1>0, <3>1, <4>1 DEF ReplaceCollides
      <3>2. CASE ReplaceFails(h)
        <4>1. torn' \in BOOLEAN BY <3>2, Zenon DEF ReplaceFails
        <4>. QED BY <1>0, <3>2, <4>1 DEF ReplaceFails, Operation
      <3>. QED BY <1>8, <3>1, <3>2
    <2>. QED BY <1>0, <1>3, <2>1, NewUpdate, AccountTypes
  <1>9. CASE ChangePassword(h)
    <2> DEFINE v == [NoUpdate EXCEPT !.at = "hash", !.row = row, !.hash = ops']
    <2>1. /\ update' = [update EXCEPT ![h] = v] /\ ops' \in 0 .. MaxOps
          /\ UNCHANGED <<role, row, rules, key, sms, wait, client, ordered, latest, lost, torn>>
      BY <1>0, <1>9 DEF ChangePassword, Operation
    <2>2. v \in Updates /\ v.todo = {} BY <1>0, <2>1, ConstantRecords DEF Updates
    <2> HIDE DEF v
    <2>. QED BY <1>0, <2>1, <2>2, NewUpdate, AccountTypes
  <1>10. CASE ChangePasswordSave(h)
    <2>1. /\ row' = [u.row EXCEPT !.hash = u.hash]
          /\ update' = [update EXCEPT ![h] = NoUpdate]
          /\ ordered' = [ordered EXCEPT !.row.hash = u.hash]
          /\ lost' \in BOOLEAN
          /\ UNCHANGED <<role, rules, key, sms, wait, client, ops, latest, torn>>
      BY <1>10 DEF ChangePasswordSave
    <2>2. row' \in Rows BY <1>2, <2>1 DEF Rows
    <2>3. ordered' \in Orderings BY <1>0, <1>2, <2>1 DEF Orderings, Rows
    <2>. QED BY <1>0, <1>3, <2>1, <2>2, <2>3, NewUpdate, AccountTypes
  <1>. QED BY <1>4, <1>5, <1>6, <1>7, <1>8, <1>9, <1>10 DEF Handle

\* The deletion of the user and of a modem.
LEMMA DeleteTypeInv ==
  ASSUME TypeInv, DeleteUser \/ \E sim \in SIMs : DeleteModem(sim)
  PROVE  TypeInv'
  <1> USE AccessAssumption DEF account
  <1>0. /\ ordered \in Orderings /\ row \in Rows /\ rules \in RuleSets
        /\ update \in [Handlers -> Updates]
        /\ sms \in Seq(SIMs \cup {Gone}) /\ Len(sms) <= MaxSMS
        /\ ops \in 0 .. MaxOps /\ latest \in Handlers /\ lost \in BOOLEAN /\ torn \in BOOLEAN
        /\ \A g \in Handlers : update[g].todo \subseteq DOMAIN Kept(update[g].order)
    BY DEF TypeInv, TypeOK, Shape
  <1>1. ASSUME UNCHANGED update
        PROVE  /\ update' \in [Handlers -> Updates]
               /\ \A g \in Handlers : update'[g].todo \subseteq DOMAIN Kept(update'[g].order)
    BY <1>0, <1>1
  <1>2. CASE DeleteUser
    <2>1. /\ UNCHANGED <<role, rules, key, update, sms, wait, client, latest, lost, torn>>
          /\ row' = [row EXCEPT !.live = FALSE] /\ ops' \in 0 .. MaxOps
          /\ ordered' = [ordered EXCEPT !.row.live = FALSE]
      BY <1>0, <1>2 DEF DeleteUser, Operation
    <2>2. row' \in Rows BY <1>0, <2>1 DEF Rows
    <2>3. ordered' \in Orderings BY <1>0, <2>1 DEF Orderings, Rows
    <2>. QED BY <1>0, <1>1, <2>1, <2>2, <2>3, AccountTypes
  <1>3. ASSUME NEW sim \in SIMs, DeleteModem(sim) PROVE TypeInv'
    <2> DEFINE Clean(r) == IF r.live
                           THEN [r EXCEPT !.allowed = RemoveICCIDFromAllowedList(@, sim)]
                           ELSE r
    <2>1. /\ UNCHANGED <<role, key, update, wait, client, latest, lost>>
          /\ sms' = [i \in DOMAIN sms |-> IF sms[i] = sim THEN Gone ELSE sms[i]]
          /\ rules' = Only(rules, Names \ {sim}) /\ row' = Clean(row)
          /\ ordered' = [row |-> Clean(ordered.row), rules |-> Only(ordered.rules, Names \ {sim})]
          /\ ops' \in 0 .. MaxOps /\ torn' \in BOOLEAN
      BY <1>0, <1>3 DEF DeleteModem, Operation
    <2>2. \A r \in Rows : Clean(r) \in Rows
      BY DEF Rows, RemoveICCIDFromAllowedList
    <2>3. rules' \in RuleSets BY <1>0, <2>1, OnlyRules
    <2>4. ordered' \in Orderings
      <3>1. ordered.row \in Rows /\ ordered.rules \in RuleSets BY <1>0 DEF Orderings
      <3>2. Clean(ordered.row) \in Rows BY <2>2, <3>1
      <3>3. Only(ordered.rules, Names \ {sim}) \in RuleSets BY <3>1, OnlyRules
      <3>. QED BY <2>1, <3>2, <3>3 DEF Orderings
    <2>5. sms' \in Seq(SIMs \cup {Gone}) /\ Len(sms') = Len(sms)
      BY <1>0, <2>1
    <2>6. row' \in Rows BY <1>0, <2>1, <2>2
    <2> HIDE DEF Clean
    <2>. QED BY <1>0, <1>1, <2>1, <2>3, <2>4, <2>5, <2>6, AccountTypes
  <1>. QED BY <1>2, <1>3

\* API keys.
LEMMA KeyTypeInv ==
  ASSUME TypeInv,
         \/ \E flags \in SUBSET Perms : CreateMyAPIKey(flags)
         \/ RotateMyAPIKey \/ DeleteMyAPIKey \/ KeyExpires \/ Configure
  PROVE  TypeInv'
  <1> USE AccessAssumption DEF account, history
  <1>1. UNCHANGED <<role, row, rules, update, sms, wait, ordered, latest, lost, torn>>
    BY DEF CreateMyAPIKey, RotateMyAPIKey, DeleteMyAPIKey, KeyExpires, Configure
  <1>2. /\ key \in [state : {"none", "valid", "expired"}, flags : SUBSET Perms]
        /\ client \in Clients /\ ops \in 0 .. MaxOps
    BY DEF TypeInv, TypeOK, Shape
  <1>3. key' \in [state : {"none", "valid", "expired"}, flags : SUBSET Perms]
    BY <1>2 DEF CreateMyAPIKey, RotateMyAPIKey, DeleteMyAPIKey, KeyExpires, Configure
  <1>4. client' \in Clients
    BY <1>2 DEF CreateMyAPIKey, RotateMyAPIKey, DeleteMyAPIKey, KeyExpires, Configure, Clients
  <1>5. ops' \in 0 .. MaxOps
    BY <1>2 DEF CreateMyAPIKey, RotateMyAPIKey, DeleteMyAPIKey, KeyExpires, Configure, Operation
  <1>6. Shape' BY <1>1, <1>4 DEF TypeInv, Shape
  <1>7. TypeOK' BY <1>1, <1>3, <1>4, <1>5 DEF TypeInv, TypeOK, Kept, Only, Clients
  <1>. QED BY <1>6, <1>7 DEF TypeInv

-----------------------------------------------------------------------------
(* Ids.                                                                    *)

\* The latest of a set of ids is one of them and not before another.
LEMMA LatestFacts ==
  ASSUME NEW n \in Nat, NEW S \in SUBSET (1 .. n)
  PROVE  /\ Latest(S) \in S \cup {0} /\ Latest(S) \in 0 .. n
         /\ \A k \in S : k <= Latest(S)
  <1> DEFINE T == {n - k : k \in S \cup {0}}
  <1>0. \A k \in S \cup {0} : k \in 0 .. n /\ n - k \in Nat OBVIOUS
  <1>1. T \subseteq Nat /\ T # {} BY <1>0
  <1>2. PICK x \in T : \A y \in T : ~(<<y, x>> \in OpToRel(<, Nat))
    <2> HIDE DEF T
    <2>. QED BY <1>1, WFMin, NatLessThanWellFounded
  <1>3. \A y \in T : ~(y < x) BY <1>1, <1>2 DEF OpToRel
  <1>4. PICK m \in S \cup {0} : x = n - m BY <1>2
  <1>5. ASSUME NEW k \in S \cup {0} PROVE m >= k
    <2>1. ~(n - k < n - m) BY <1>3, <1>4
    <2>2. k \in Int /\ m \in Int /\ n \in Int BY <1>0
    <2>. QED
      <3> HIDE DEF T
      <3>. QED BY <2>1, <2>2
  <1>6. \E z \in S \cup {0} : \A k \in S \cup {0} : z >= k BY <1>5
  <1>7. Latest(S) \in S \cup {0} /\ \A k \in S \cup {0} : Latest(S) >= k
    BY <1>6 DEF Latest, Max
  <1>. QED BY <1>0, <1>7

\* max_records of the ids: those that are returned are not after one that is not.
LEMMA SmallestFacts ==
  ASSUME NEW n \in Nat, NEW S \in SUBSET (1 .. n), NEW r \in Nat
  PROVE  /\ SmallestOf(S, r) \subseteq S
         /\ \A i \in S, j \in SmallestOf(S, r) : i <= j => i \in SmallestOf(S, r)
  <1>1. SmallestOf(S, r) \subseteq S BY DEF SmallestOf
  <1>2. ASSUME NEW i \in S, NEW j \in SmallestOf(S, r), i <= j
        PROVE  i \in SmallestOf(S, r)
    <2> DEFINE Before(k) == {h \in S : h < k}
    <2>1. IsFiniteSet(1 .. n) BY FS_Interval
    <2>2. IsFiniteSet(Before(i)) /\ IsFiniteSet(Before(j)) BY <2>1, FS_Subset
    <2>3. j \in S /\ \A h \in S : h \in Int
      <3>1. j \in S BY <1>1
      <3>2. \A h \in S : h \in Int OBVIOUS
      <3>. QED BY <3>1, <3>2
    <2>4. Before(i) \subseteq Before(j)
      <3>1. ASSUME NEW h \in S, h < i PROVE h < j
        <4>1. h \in Int /\ i \in Int /\ j \in Int BY <2>3
        <4>. QED BY <1>2, <3>1, <4>1
      <3>. QED BY <3>1
    <2>5. /\ Cardinality(Before(i)) <= Cardinality(Before(j))
          /\ Cardinality(Before(i)) \in Nat /\ Cardinality(Before(j)) \in Nat
      <3> HIDE DEF Before
      <3>. QED BY <2>2, <2>4, FS_Subset, FS_CardinalityType
    <2>6. Cardinality(Before(j)) < r BY DEF SmallestOf
    <2>7. Cardinality(Before(i)) < r BY <2>5, <2>6
    <2>. QED BY <2>7 DEF SmallestOf
  <1>. QED BY <1>1, <1>2

-----------------------------------------------------------------------------
(* The client of wait_sms.                                                 *)

FeedInv == Following /\ NothingSkipped

LEMMA QueryIds ==
  ASSUME TypeInv
  PROVE  /\ DOMAIN sms = 1 .. Len(sms) /\ Len(sms) \in Nat /\ Len(sms) <= MaxSMS
         /\ ScopedSMSQuery \in SUBSET (1 .. Len(sms))
  BY DEF TypeInv, TypeOK, ScopedSMSQuery

\* A query that is not refused finds every message awaited.
LEMMA FilterFinds ==
  ASSUME TypeInv, NEW i \in DOMAIN sms,
         sms[i] = client.filter \/ (client.filter = All /\ role = "admin" /\ sms[i] # Gone)
  PROVE  i \in ScopedSMSQuery
  <1> USE AccessAssumption
  <1>1. sms[i] \in SIMs \cup {Gone} BY DEF TypeInv, TypeOK
  <1>2. client.filter \in Names BY DEF TypeInv, TypeOK
  <1>3. CASE client.filter # All BY <1>3 DEF ScopedSMSQuery
  <1>4. CASE client.filter = All
    <2>1. sms[i] # All BY <1>1 DEF All, Gone
    <2>2. role = "admin" /\ sms[i] \in SIMs BY <1>1, <1>4, <2>1
    <2>. QED BY <1>4, <2>2 DEF ScopedSMSQuery, Shown
  <1>. QED BY <1>3, <1>4

\* Steps that neither the messages nor the client's position know of.
LEMMA QuietFeedInv ==
  ASSUME TypeInv, FeedInv, UNCHANGED <<role, sms, wait>>,
         client'.filter = client.filter, client'.base = client.base,
         client'.after = client.after, client'.got = client.got
  PROVE  FeedInv'
  BY DEF FeedInv, Following, NothingSkipped, Awaited

\* Messages come with ids after the client's; a deleted one is awaited no more.
LEMMA SMSFeedInv ==
  ASSUME TypeInv, FeedInv, NEW sim \in SIMs, CreateReceived(sim) \/ DeleteModem(sim)
  PROVE  FeedInv'
  <1> USE AccessAssumption DEF account
  <1>1. UNCHANGED <<role, wait, client>> BY DEF CreateReceived, DeleteModem
  <1>2. /\ sms \in Seq(SIMs \cup {Gone}) /\ Len(sms) \in Nat /\ client.filter \in Names
        /\ client.after \in Nat /\ client.base \in Nat /\ Unset \in Nat /\ Len(sms) <= MaxSMS
        /\ wait.after \in Nat
    BY DEF TypeInv, TypeOK, Unset
  <1>3. client.filter # Gone BY <1>2 DEF Names, All, Gone
  <1>4. CASE CreateReceived(sim)
    <2>1. /\ sms' = Append(sms, sim) /\ Len(sms') = Len(sms) + 1 /\ Len(sms) < MaxSMS
          /\ DOMAIN sms = 1 .. Len(sms)
          /\ DOMAIN sms' = 1 .. (Len(sms) + 1) /\ \A i \in 1 .. Len(sms) : sms'[i] = sms[i]
      BY <1>2, <1>4 DEF CreateReceived
    <2>2. Following' BY <1>1, <1>2, <2>1 DEF FeedInv, Following
    <2>3. NothingSkipped'
      <3> SUFFICES ASSUME NEW i \in DOMAIN sms', Awaited(i)', i <= client.after
                   PROVE  i \in client.got
        BY <1>1 DEF NothingSkipped
      <3>1. CASE i \in 1 .. Len(sms)
        BY <1>1, <2>1, <3>1 DEF FeedInv, NothingSkipped, Awaited
      <3>2. CASE i = Len(sms) + 1
        <4>1. client.base < i BY <1>1 DEF Awaited
        <4>2. client.after = Unset BY <1>2, <3>2 DEF FeedInv, Following
        <4>3. client.base = Unset BY <4>2 DEF FeedInv, Following
        <4>. QED BY <1>2, <2>1, <3>2, <4>1, <4>3 DEF Unset
      <3>. QED BY <1>2, <2>1, <3>1, <3>2
    <2>. QED BY <2>2, <2>3 DEF FeedInv
  <1>5. CASE DeleteModem(sim)
    <2>1. /\ sms' = [i \in DOMAIN sms |-> IF sms[i] = sim THEN Gone ELSE sms[i]]
          /\ DOMAIN sms' = DOMAIN sms /\ Len(sms') = Len(sms)
      BY <1>2, <1>5 DEF DeleteModem
    <2>2. Following' BY <1>1, <2>1 DEF FeedInv, Following
    <2>3. \A i \in DOMAIN sms : Awaited(i)' => Awaited(i)
      BY <1>1, <1>3, <2>1 DEF Awaited
    <2>4. NothingSkipped' BY <1>1, <2>1, <2>3 DEF FeedInv, NothingSkipped
    <2>. QED BY <2>2, <2>4 DEF FeedInv
  <1>. QED BY <1>4, <1>5

\* The calls: the first sets its own position, an answer moves the client's.
LEMMA WaitFeedInv ==
  ASSUME TypeInv, FeedInv, ToolWaitSMS \/ Wait \/ WaitFails
  PROVE  TypeInv' /\ FeedInv'
  <1> USE AccessAssumption DEF account, history
  <1> DEFINE Q == ScopedSMSQuery
  <1>0. /\ UNCHANGED <<role, row, rules, key, update, sms, ordered, latest, lost, torn>>
        /\ ops' \in 0 .. MaxOps
        /\ client \in Clients /\ wait \in Waits /\ row.allowed \subseteq Names
        /\ Unset = MaxSMS + 1
    <2>1. /\ UNCHANGED <<role, row, rules, key, update, sms, ordered, latest, lost, torn>>
          /\ UNCHANGED ops \/ Operation
      BY DEF ToolWaitSMS, Wait, WaitStart, WaitFinds, WaitTimesOut, WaitRefused, WaitFails, Answer
    <2>2. ops \in 0 .. MaxOps BY DEF TypeInv, TypeOK
    <2>. QED BY <2>1, <2>2 DEF TypeInv, TypeOK, Shape, Rows, Unset, Operation
  <1>1. ASSUME client' \in Clients, wait' \in Waits PROVE TypeInv'
    <2>1. Shape' BY <1>0, <1>1 DEF TypeInv, Shape
    <2>2. /\ wait'.at \in {"idle", "start", "poll"} /\ wait'.allowed \subseteq Names
          /\ wait'.after \in 0 .. Unset
      BY <1>1 DEF Waits
    <2>3. /\ client'.holds \in BOOLEAN /\ client'.filter \in Filters
          /\ client'.base \in 0 .. Unset /\ client'.after \in 0 .. Unset
          /\ client'.got \subseteq 1 .. MaxSMS
      BY <1>1 DEF Clients
    <2>4. TypeOK' BY <1>0, <2>2, <2>3 DEF TypeInv, TypeOK, Kept, Only, Unset
    <2>. QED BY <2>1, <2>4 DEF TypeInv
  <1>2. /\ DOMAIN sms = 1 .. Len(sms) /\ Len(sms) \in Nat /\ Len(sms) <= MaxSMS
        /\ Q \in SUBSET (1 .. Len(sms))
    BY QueryIds
  <1>3. /\ client.after \in 0 .. Unset /\ client.base \in 0 .. Unset /\ wait.after \in 0 .. Unset
        /\ client.got \subseteq 1 .. MaxSMS
    BY <1>0 DEF Clients, Waits
  <1>4. NoWait \in Waits /\ NoWait.at = "idle" BY ConstantRecords
  <1>5. CASE ToolWaitSMS
    <2>1. /\ client' = client
          /\ wait' = [at |-> "start", allowed |-> row.allowed, after |-> client.after]
      BY <1>5 DEF ToolWaitSMS
    <2>2. wait' \in Waits BY <1>0, <1>3, <2>1 DEF Waits
    <2>3. FeedInv' BY <1>0, <2>1 DEF FeedInv, Following, NothingSkipped, Awaited
    <2>. QED BY <1>0, <1>1, <2>1, <2>2, <2>3
  <1>6. CASE WaitRefused \/ WaitFails
    <2>1. client' = client /\ wait' = NoWait BY <1>6 DEF WaitRefused, WaitFails
    <2>2. FeedInv' BY <1>0, <1>4, <2>1 DEF FeedInv, Following, NothingSkipped, Awaited
    <2>. QED BY <1>0, <1>1, <1>4, <2>1, <2>2
  <1>7. CASE WaitStart
    <2> DEFINE after == IF wait.after = Unset THEN Latest(Q) ELSE wait.after
    <2>1. /\ client' = client /\ wait.at = "start"
          /\ wait' = [wait EXCEPT !.at = "poll", !.after = after]
      BY <1>7 DEF WaitStart
    <2>2. Latest(Q) \in 0 .. Len(sms)
      <3> HIDE DEF Q
      <3>. QED BY <1>2, LatestFacts
    <2>3. wait.after = client.after BY <2>1 DEF FeedInv, Following
    <2>4. /\ after # Unset /\ after <= Len(sms) /\ after \in 0 .. Unset
          /\ client.after \in {Unset, after}
      BY <1>0, <1>2, <1>3, <2>2, <2>3 DEF FeedInv, Following
    <2> HIDE DEF after
    <2>5. wait' \in Waits /\ wait'.at = "poll" /\ wait'.after = after
      BY <1>0, <2>1, <2>4 DEF Waits
    <2>6. Following' BY <1>0, <2>1, <2>4, <2>5 DEF FeedInv, Following
    <2>7. NothingSkipped' BY <1>0, <2>1 DEF FeedInv, NothingSkipped, Awaited
    <2>. QED BY <1>0, <1>1, <2>1, <2>5, <2>6, <2>7 DEF FeedInv
  <1>8. ASSUME NEW new \in SUBSET (1 .. Len(sms)), NEW next \in 0 .. Len(sms),
               wait.at = "poll", Answer(new, next),
               \A i \in Q : wait.after < i /\ i <= next => i \in new
        PROVE  TypeInv' /\ FeedInv'
    <2> DEFINE base == IF client.base = Unset THEN wait.after ELSE client.base
    <2>1. /\ wait' = NoWait
          /\ client' = [client EXCEPT !.got = @ \cup new, !.after = next, !.base = base]
      BY <1>8 DEF Answer
    <2>2. /\ wait.after # Unset /\ wait.after <= Len(sms)
          /\ client.after \in {Unset, wait.after}
          /\ client.base = Unset <=> client.after = Unset
      BY <1>8 DEF FeedInv, Following
    <2>3. next # Unset /\ next \in 0 .. Unset /\ base # Unset /\ base \in 0 .. Unset
      <3>1. next # Unset /\ next \in 0 .. Unset BY <1>0, <1>2
      <3>2. CASE client.base = Unset
        <4>1. base = wait.after BY <3>2
        <4>. QED BY <1>3, <2>2, <3>1, <4>1
      <3>3. CASE client.base # Unset
        <4>1. base = client.base BY <3>3
        <4>. QED BY <1>3, <3>1, <3>3, <4>1
      <3>. QED BY <3>2, <3>3
    <2>4. client.got \cup new \subseteq 1 .. MaxSMS
      <3>1. MaxSMS \in Nat BY AccessAssumption
      <3>2. 1 .. Len(sms) \subseteq 1 .. MaxSMS BY <1>2, <3>1
      <3>. QED BY <1>3, <3>2
    <2>5. base = wait.after \/ (base = client.base /\ client.after = wait.after)
      BY <2>2
    <2> HIDE DEF base
    <2>6. /\ client' \in Clients /\ client'.base = base /\ client'.after = next
          /\ client'.filter = client.filter /\ client'.got = client.got \cup new
      BY <1>0, <2>1, <2>3, <2>4 DEF Clients
    <2>7. Following' BY <1>0, <1>4, <2>1, <2>3, <2>6 DEF Following
    <2>8. NothingSkipped'
      <3> SUFFICES ASSUME NEW i \in DOMAIN sms, Awaited(i)', i <= next
                   PROVE  i \in client.got \cup new
        BY <1>0, <2>6 DEF NothingSkipped
      <3>1. base < i /\ i \in Nat /\ wait.after \in Nat
        BY <1>2, <1>3, <2>6 DEF Awaited
      <3>2. i \in Q
        <4>1. sms[i] = client.filter \/ (client.filter = All /\ role = "admin" /\ sms[i] # Gone)
          BY <1>0, <2>6 DEF Awaited
        <4>. QED BY <4>1, FilterFinds
      <3>3. CASE wait.after < i BY <1>8, <3>2, <3>3
      <3>4. CASE ~(wait.after < i)
        <4>1. base = client.base /\ client.after = wait.after /\ i <= client.after
          BY <2>5, <3>1, <3>4
        <4>2. Awaited(i) BY <1>0, <2>6, <4>1 DEF Awaited
        <4>. QED BY <4>1, <4>2 DEF FeedInv, NothingSkipped
      <3>. QED BY <3>3, <3>4
    <2>. QED BY <1>1, <1>4, <2>1, <2>6, <2>7, <2>8 DEF FeedInv
  <1>9. CASE WaitTimesOut
    <2>1. wait.at = "poll" /\ Answer({}, wait.after) /\ \A i \in Q : i <= wait.after
      BY <1>9 DEF WaitTimesOut
    <2>2. wait.after \in 0 .. Len(sms)
      BY <1>0, <1>2, <1>3, <2>1 DEF FeedInv, Following
    <2>3. \A i \in Q : ~(wait.after < i /\ i <= wait.after)
      <3>1. \A i \in Q : i \in Int BY <1>2
      <3> HIDE DEF Q
      <3>. QED BY <2>1, <2>2, <3>1
    <2>4. {} \in SUBSET (1 .. Len(sms)) OBVIOUS
    <2> HIDE DEF Q
    <2>. QED BY <1>8, <2>1, <2>2, <2>3, <2>4
  <1>10. CASE WaitFinds
    <2> DEFINE S == {i \in Q : i > wait.after}
               new == SmallestOf(S, MaxRecords)
    <2>1. wait.at = "poll" /\ new # {} /\ Answer(new, Latest(new))
      BY <1>10 DEF WaitFinds
    <2>2. S \in SUBSET (1 .. Len(sms)) BY <1>2
    <2>3. /\ new \subseteq S
          /\ \A i \in S, j \in new : i <= j => i \in new
      <3> HIDE DEF S
      <3>. QED BY <1>2, <2>2, SmallestFacts
    <2>4. new \in SUBSET (1 .. Len(sms)) BY <2>2, <2>3
    <2>5. Latest(new) \in new \cup {0} /\ \A k \in new : k <= Latest(new)
      <3> HIDE DEF new
      <3>. QED BY <1>2, <2>4, LatestFacts
    <2>6. Latest(new) \in new /\ Latest(new) \in 0 .. Len(sms)
      <3> HIDE DEF new, S
      <3>1. PICK k \in new : TRUE BY <2>1
      <3>2. k >= 1 /\ k \in Int BY <2>4
      <3>3. k <= Latest(new) BY <2>5
      <3>4. Latest(new) # 0 BY <3>2, <3>3
      <3>5. Latest(new) \in new BY <2>5, <3>4
      <3>6. Latest(new) \in 1 .. Len(sms) BY <2>4, <3>5
      <3>. QED BY <1>2, <3>5, <3>6
    <2>7. \A i \in Q : wait.after < i /\ i <= Latest(new) => i \in new
      <3> SUFFICES ASSUME NEW i \in Q, wait.after < i, i <= Latest(new) PROVE i \in new
        OBVIOUS
      <3>1. i \in S BY <1>2, <1>3
      <3>. QED BY <2>3, <2>6, <3>1
    <2> HIDE DEF new
    <2>. QED BY <1>8, <2>1, <2>4, <2>6, <2>7
  <1>. QED BY <1>5, <1>6, <1>7, <1>9, <1>10 DEF Wait

LEMMA ReceivedTypeInv ==
  ASSUME TypeInv, NEW sim \in SIMs, CreateReceived(sim)
  PROVE  TypeInv'
  <1> USE DEF account, history
  <1>1. /\ UNCHANGED <<role, row, rules, key, update, wait, client, ops, history>>
        /\ sms' = Append(sms, sim) /\ Len(sms) < MaxSMS /\ sms \in Seq(SIMs \cup {Gone})
    BY DEF CreateReceived, TypeInv, TypeOK
  <1>2. sms' \in Seq(SIMs \cup {Gone}) /\ Len(sms') <= MaxSMS BY <1>1, AccessAssumption
  <1>3. Shape' BY <1>1 DEF TypeInv, Shape
  <1>4. TypeOK' BY <1>1, <1>2 DEF TypeInv, TypeOK, Kept, Only
  <1>. QED BY <1>3, <1>4 DEF TypeInv

-----------------------------------------------------------------------------
(* What was asked for.                                                     *)

\* Steps that neither the account nor a handler takes part in.
LEMMA QuietObeyed ==
  ASSUME Obeyed, UNCHANGED <<row, rules, update, history>>
  PROVE  Obeyed'
  BY DEF Obeyed, LastOrderObeyed, Kept, Only, history

\* Handlers that are not the last order's, and steps outside its statements.
LEMMA OthersObeyed ==
  ASSUME TypeInv, Obeyed, NEW h \in Handlers, NEW v \in Updates,
         update' = [update EXCEPT ![h] = v], latest' = latest,
         rules' = rules, ordered'.rules = ordered.rules,
         ~torn' => ~torn,
         h = latest /\ ~torn' =>
           update[h].at \notin {"clear", "insert"} /\ v.at \notin {"clear", "insert"},
         ~lost' => row' = ordered'.row
  PROVE  Obeyed'
  <1>1. latest \in Handlers /\ update \in [Handlers -> Updates] BY DEF TypeInv, TypeOK, Shape
  <1>2. SUFFICES ASSUME ~torn' PROVE LastOrderObeyed(update[latest])'
    BY DEF Obeyed
  <1>3. CASE h = latest
    <2>1. update'[latest'] = v BY <1>1, <1>3
    <2>2. rules = ordered.rules BY <1>2, <1>3 DEF Obeyed, LastOrderObeyed
    <2>. QED BY <1>2, <1>3, <2>1, <2>2 DEF LastOrderObeyed
  <1>4. CASE h # latest
    <2>1. update'[latest'] = update[latest] BY <1>1, <1>4
    <2>. QED BY <1>2, <2>1 DEF Obeyed, LastOrderObeyed, Kept, Only
  <1>. QED BY <1>3, <1>4

\* The rules of a replacement that is done are those of its order, if it is the
\* last: an older one only writes before the last one deletes, or disturbs it.
LEMMA ReplaceObeyed ==
  ASSUME TypeInv, Obeyed, NEW h \in Handlers,
         UpdateSave(h) \/ ReplaceClear(h) \/ \E n \in Names : ReplaceInsert(h, n)
  PROVE  Obeyed'
  <1> USE DEF account
  <1> DEFINE u == update[h]
             kept == Kept(u.order)
  <1>0. /\ latest \in Handlers /\ update \in [Handlers -> Updates] /\ row \in Rows
        /\ ordered \in Orderings /\ u \in Updates
    BY DEF TypeInv, TypeOK, Shape
  <1>1. /\ u.todo \subseteq DOMAIN kept /\ kept \in RuleSets /\ DOMAIN kept \subseteq Names
        /\ \A n \in DOMAIN kept : kept[n] = u.order.rules[n]
    BY HandlerTypes
  <1>2. NoUpdate.at = "idle" BY ConstantRecords
  <1>3. CASE UpdateSave(h)
    <2>1. /\ row' = [u.row EXCEPT !.allowed = u.order.allowed]
          /\ ordered' = [row |-> [ordered.row EXCEPT !.allowed = u.order.allowed], rules |-> kept]
          /\ update' = [update EXCEPT ![h].at = "clear"]
          /\ lost' = (lost \/ row # u.row) /\ latest' = h
      BY <1>3 DEF UpdateSave
    <2>2. update'[latest'].at = "clear" /\ update'[latest'].order = u.order
      BY <1>0, <2>1 DEF Updates
    <2>3. ordered'.rules = Kept(update'[latest'].order) BY <2>1, <2>2
    <2>4. LastOrderObeyed(update[latest])' BY <2>2, <2>3 DEF LastOrderObeyed, Kept, Only
    <2>5. ~lost' => row' = ordered'.row BY <2>1 DEF Obeyed
    <2>. QED BY <2>4, <2>5 DEF Obeyed
  <1>4. ASSUME h # latest, ReplaceClear(h) \/ \E n \in Names : ReplaceInsert(h, n)
        PROVE  Obeyed'
    <2>1. /\ UNCHANGED <<row, ordered, latest, lost>>
          /\ ~torn' => ~torn /\ update[latest].at = "clear"
      BY <1>4 DEF ReplaceClear, ReplaceInsert, Disturbs
    <2>2. update'[latest] = update[latest]
      <3>1. PICK w : update' = [update EXCEPT ![h] = w]
        BY <1>4 DEF ReplaceClear, ReplaceInsert
      <3>. QED BY <1>0, <1>4, <3>1
    <2>3. ~torn' => LastOrderObeyed(update[latest])'
      BY <2>1, <2>2 DEF Obeyed, LastOrderObeyed, Kept, Only
    <2>. QED BY <2>1, <2>3 DEF Obeyed
  <1>5. CASE h = latest /\ ReplaceClear(h)
    <2> DEFINE v == IF DOMAIN kept = {} THEN NoUpdate
                    ELSE [u EXCEPT !.at = "insert", !.todo = DOMAIN kept]
    <2>1. /\ UNCHANGED <<row, ordered, lost>> /\ latest' = h /\ rules' = NoRules
          /\ u.at = "clear" /\ update' = [update EXCEPT ![h] = v]
          /\ ~torn' => ~torn
      BY <1>5 DEF ReplaceClear, Disturbs
    <2>2. ~torn' => ordered'.rules = kept
      <3>1. SUFFICES ASSUME ~torn' PROVE ordered'.rules = kept
        OBVIOUS
      <3>2. LastOrderObeyed(update[latest]) BY <2>1, <3>1, Zenon DEF Obeyed
      <3>3. LastOrderObeyed(u) BY <1>5, <3>2, Zenon
      <3>4. ordered.rules = Kept(u.order)
        BY <2>1, <3>3, Zenon DEF LastOrderObeyed
      <3>. QED BY <2>1, <3>4, Zenon
    <2>3. update'[latest'] = v
      <3> HIDE DEF v
      <3>. QED BY <1>0, <2>1, Zenon
    <2>4. CASE DOMAIN kept = {}
      <3>1. kept = NoRules
        <4> HIDE DEF kept
        <4>. QED BY <1>1, <2>4, RuleSetsFacts DEF NoRules
      <3>2. update'[latest'].at = "idle" BY <1>2, <2>3, <2>4
      <3>3. ~torn' => LastOrderObeyed(update[latest])'
        BY <2>1, <2>2, <3>1, <3>2 DEF LastOrderObeyed
      <3>. QED BY <2>1, <3>3 DEF Obeyed
    <2>5. CASE DOMAIN kept # {}
      <3>1. /\ update'[latest'].at = "insert" /\ update'[latest'].todo = DOMAIN kept
            /\ update'[latest'].order = u.order
        BY <1>0, <2>3, <2>5 DEF Updates
      <3>2. Only(kept, Names \ DOMAIN kept) = NoRules BY DEF Only, NoRules
      <3>3. Only(Kept(update'[latest'].order), Names \ update'[latest'].todo) = NoRules
        BY <3>1, <3>2
      <3>4. Kept(update'[latest'].order) = kept BY <3>1
      <3> HIDE DEF kept, v, u
      <3>5. ~torn' => LastOrderObeyed(update[latest])'
        BY <2>1, <2>2, <3>1, <3>3, <3>4 DEF LastOrderObeyed, Kept, Only
      <3>. QED BY <2>1, <3>5 DEF Obeyed
    <2>. QED BY <2>4, <2>5
  <1>6. ASSUME NEW n \in Names, h = latest, ReplaceInsert(h, n) PROVE Obeyed'
    <2> DEFINE left == u.todo \ {n}
               v == IF left = {} THEN NoUpdate ELSE [u EXCEPT !.todo = left]
    <2>1. /\ UNCHANGED <<row, ordered, lost>> /\ latest' = h
          /\ u.at = "insert" /\ n \in u.todo
          /\ ~torn' => ~torn
          /\ update' = [update EXCEPT ![h] = v]
          /\ rules' = [m \in DOMAIN rules \cup {n} |->
                          IF m = n THEN u.order.rules[n] ELSE rules[m]]
      <3>1. /\ UNCHANGED <<row, ordered, latest, lost>>
            /\ u.at = "insert" /\ n \in u.todo /\ torn' = (torn \/ Disturbs(h))
        BY <1>6, Zenon DEF ReplaceInsert
      <3>2. rules' = [m \in DOMAIN rules \cup {n} |->
                         IF m = n THEN u.order.rules[n] ELSE rules[m]]
        BY <1>6, Zenon DEF ReplaceInsert
      <3>3. update' = [update EXCEPT ![h] = v] BY <1>6 DEF ReplaceInsert
      <3>4. ~torn' => ~torn BY <3>1, Zenon
      <3>. QED BY <1>6, <3>1, <3>2, <3>3, <3>4
    <2>2. ~torn' => ordered'.rules = kept /\ rules = Only(kept, Names \ u.todo)
      <3>1. SUFFICES ASSUME ~torn'
                     PROVE  ordered'.rules = kept /\ rules = Only(kept, Names \ u.todo)
        OBVIOUS
      <3>2. LastOrderObeyed(update[latest]) BY <2>1, <3>1, Zenon DEF Obeyed
      <3>3. LastOrderObeyed(u) BY <1>6, <3>2, Zenon
      <3>4. ordered.rules = kept /\ rules = Only(kept, Names \ u.todo)
        BY <2>1, <3>3, SMT DEF LastOrderObeyed
      <3>. QED BY <2>1, <3>4, Zenon
    <2>3. update'[latest'] = v
      <3> HIDE DEF v
      <3>. QED BY <1>0, <2>1, Zenon
    <2>4. ~torn' => rules' = Only(kept, Names \ left)
      <3> SUFFICES ASSUME ~torn' PROVE rules' = Only(kept, Names \ left)
        OBVIOUS
      <3>1. DOMAIN rules = DOMAIN kept \cap (Names \ u.todo)
            /\ \A m \in DOMAIN rules : rules[m] = kept[m]
        <4> HIDE DEF kept, u
        <4>. QED BY <2>2 DEF Only
      <3>2. n \in DOMAIN kept /\ kept[n] = u.order.rules[n] BY <1>1, <2>1
      <3> HIDE DEF kept, u
      <3>3. DOMAIN rules \cup {n} = DOMAIN kept \cap (Names \ left)
        BY <2>1, <3>1, <3>2
      <3>. QED BY <2>1, <3>1, <3>2, <3>3 DEF Only
    <2>5. CASE left = {}
      <3>1. Only(kept, Names \ left) = kept
        <4> HIDE DEF kept, left
        <4>2. DOMAIN kept \cap (Names \ left) = DOMAIN kept BY <1>1, <2>5
        <4>3. kept = [m \in DOMAIN kept |-> kept[m]] BY <1>1, RuleSetsFacts
        <4>. QED BY <4>2, <4>3 DEF Only
      <3>2. update'[latest'].at = "idle" BY <1>2, <2>3, <2>5
      <3> HIDE DEF kept, left, u, v
      <3>3. ~torn' => LastOrderObeyed(update[latest])'
        BY <2>2, <2>4, <3>1, <3>2 DEF LastOrderObeyed
      <3>. QED BY <2>1, <3>3 DEF Obeyed
    <2>6. CASE left # {}
      <3>1. /\ update'[latest'].at = "insert" /\ update'[latest'].todo = left
            /\ update'[latest'].order = u.order
        <4>1. v = [u EXCEPT !.todo = left] BY <2>6
        <4>2. v.at = "insert" /\ v.todo = left /\ v.order = u.order
          BY <1>0, <2>1, <4>1 DEF Updates
        <4>. QED BY <2>3, <4>2
      <3>2. Kept(update'[latest'].order) = kept BY <3>1
      <3>3. Only(Kept(update'[latest'].order), Names \ update'[latest'].todo)
            = Only(kept, Names \ left)
        BY <3>1, <3>2
      <3> HIDE DEF kept, left, u, v
      <3>4. ~torn' => LastOrderObeyed(update[latest])'
        BY <2>2, <2>4, <3>1, <3>2, <3>3 DEF LastOrderObeyed, Kept, Only
      <3>. QED BY <2>1, <3>4 DEF Obeyed
    <2>. QED BY <2>5, <2>6
  <1>. QED BY <1>3, <1>4, <1>5, <1>6

\* What a handler does apart from those statements.
LEMMA HandleObeyed ==
  ASSUME TypeInv, Obeyed, NEW h \in Handlers, Handle(h)
  PROVE  Obeyed'
  <1> USE DEF account, history
  <1>0. /\ update \in [Handlers -> Updates] /\ row \in Rows /\ ordered \in Orderings
        /\ ops \in 0 .. MaxOps
    BY DEF TypeInv, TypeOK, Shape
  <1>1. ASSUME NEW order \in Orders, UpdateUserPermissions(h, order) PROVE Obeyed'
    <2> DEFINE v == [NoUpdate EXCEPT !.at = "save", !.row = row, !.order = order]
    <2>1. v \in Updates /\ v.at = "save"
      <3>1. order \in Requests BY AccessAssumption DEF Requests
      <3>. QED BY <1>0, <3>1, ConstantRecords DEF Updates
    <2>2. /\ update[h].at = "idle" /\ update' = [update EXCEPT ![h] = v]
          /\ UNCHANGED <<row, rules, ordered, latest, lost, torn>>
      BY <1>1 DEF UpdateUserPermissions
    <2> HIDE DEF v
    <2>. QED BY <2>1, <2>2, OthersObeyed DEF Obeyed
  <1>2. CASE ChangePassword(h)
    <2> DEFINE v == [NoUpdate EXCEPT !.at = "hash", !.row = row, !.hash = ops']
    <2>1. ops' \in 0 .. MaxOps BY <1>0, <1>2, AccessAssumption DEF ChangePassword, Operation
    <2>2. v \in Updates /\ v.at = "hash" BY <1>0, <2>1, ConstantRecords DEF Updates
    <2>3. /\ update[h].at = "idle" /\ update' = [update EXCEPT ![h] = v]
          /\ UNCHANGED <<row, rules, ordered, latest, lost, torn>>
      BY <1>2 DEF ChangePassword
    <2> HIDE DEF v
    <2>. QED BY <2>2, <2>3, OthersObeyed DEF Obeyed
  <1>3. CASE ReplaceCollides(h) \/ ReplaceFails(h)
    <2>1. /\ update' = [update EXCEPT ![h] = NoUpdate]
          /\ UNCHANGED <<row, rules, ordered, latest, lost>>
          /\ ~torn' => ~torn
          /\ h = latest /\ ~torn' => update[h].at \notin {"clear", "insert"}
      BY <1>3 DEF ReplaceCollides, ReplaceFails
    <2>. QED BY <2>1, ConstantRecords, OthersObeyed DEF Obeyed
  <1>4. CASE ChangePasswordSave(h)
    <2>1. /\ update[h].at = "hash" /\ update' = [update EXCEPT ![h] = NoUpdate]
          /\ row' = [update[h].row EXCEPT !.hash = update[h].hash]
          /\ ordered' = [ordered EXCEPT !.row.hash = update[h].hash]
          /\ lost' = (lost \/ row # update[h].row)
          /\ UNCHANGED <<rules, latest, torn>>
      BY <1>4 DEF ChangePasswordSave
    <2>2. ordered'.rules = ordered.rules BY <1>0, <2>1 DEF Orderings
    <2>3. ~lost' => row' = ordered'.row BY <1>0, <2>1 DEF Obeyed, Orderings, Rows
    <2>. QED BY <2>1, <2>2, <2>3, ConstantRecords, OthersObeyed
  <1>. QED BY <1>1, <1>2, <1>3, <1>4, ReplaceObeyed DEF Handle

\* A modem deleted between the statements of the last order disturbs it.
LEMMA DeleteObeyed ==
  ASSUME TypeInv, Obeyed, DeleteUser \/ \E sim \in SIMs : DeleteModem(sim)
  PROVE  Obeyed'
  <1> USE DEF account
  <1>0. ordered \in Orderings /\ row \in Rows BY DEF TypeInv, TypeOK, Shape
  <1>1. CASE DeleteUser
    <2>1. /\ UNCHANGED <<rules, update, latest, lost, torn>>
          /\ row' = [row EXCEPT !.live = FALSE]
          /\ ordered' = [ordered EXCEPT !.row.live = FALSE]
      BY <1>1 DEF DeleteUser
    <2>2. (row = ordered.row => row' = ordered'.row) /\ ordered'.rules = ordered.rules
      BY <1>0, <2>1 DEF Orderings, Rows
    <2>. QED BY <2>1, <2>2 DEF Obeyed, LastOrderObeyed, Kept, Only
  <1>2. ASSUME NEW sim \in SIMs, DeleteModem(sim) PROVE Obeyed'
    <2>1. /\ UNCHANGED <<update, latest, lost>>
          /\ ~torn' => ~torn /\ update[latest].at \notin {"clear", "insert"}
          /\ rules' = Only(rules, Names \ {sim})
          /\ ordered'.rules = Only(ordered.rules, Names \ {sim})
          /\ row = ordered.row => row' = ordered'.row
      BY <1>2 DEF DeleteModem
    <2>2. ~torn' => LastOrderObeyed(update[latest])'
      BY <2>1 DEF Obeyed, LastOrderObeyed
    <2>. QED BY <2>1, <2>2 DEF Obeyed
  <1>. QED BY <1>1, <1>2

-----------------------------------------------------------------------------
LEMMA InitIInv == Init => IInv
  <1> SUFFICES ASSUME Init PROVE IInv
    OBVIOUS
  <1>1. TypeInv BY InitTypeInv
  <1>2. Obeyed
    <2> DEFINE h == CHOOSE g \in Handlers : TRUE
    <2>1. h \in Handlers BY AccessAssumption
    <2>2. PICK order \in Orders :
            /\ row = [live |-> TRUE, allowed |-> order.allowed, hash |-> 0]
            /\ update = [g \in Handlers |->
                           IF g = h THEN [NoUpdate EXCEPT !.at = "clear", !.order = order]
                           ELSE NoUpdate]
            /\ ordered = [row |-> row, rules |-> Kept(order)] /\ latest = h
      BY DEF Init
    <2> HIDE DEF h
    <2>3. update[latest] = [NoUpdate EXCEPT !.at = "clear", !.order = order]
      BY <2>1, <2>2
    <2>4. update[latest].at = "clear" /\ update[latest].order = order
      BY <2>3 DEF NoUpdate
    <2>. QED BY <2>2, <2>4 DEF Obeyed, LastOrderObeyed
  <1>3. Following /\ NothingSkipped
    <2>1. sms = <<>> /\ wait = NoWait /\ client.base = Unset /\ client.after = Unset
      BY DEF Init
    <2>. QED BY <2>1, ConstantRecords DEF Following, NothingSkipped
  <1>. QED BY <1>1, <1>2, <1>3 DEF IInv

LEMMA NextIInv == IInv /\ [Next]_vars => IInv'
  <1> SUFFICES ASSUME TypeInv, Obeyed, FeedInv, [Next]_vars
               PROVE  TypeInv' /\ Obeyed' /\ FeedInv'
    BY DEF IInv, FeedInv
  <1> USE DEF account
  <1>1. CASE UNCHANGED vars
    <2>1. TypeInv' BY <1>1 DEF vars, history, TypeInv, TypeOK, Shape, Kept, Only
    <2>. QED BY <1>1, <2>1, QuietObeyed, QuietFeedInv DEF vars
  <1>2. ASSUME NEW h \in Handlers, Handle(h) PROVE TypeInv' /\ Obeyed' /\ FeedInv'
    <2>1. UNCHANGED <<role, sms, wait, client>>
      BY <1>2 DEF Handle, UpdateUserPermissions, UpdateSave, ReplaceClear, ReplaceInsert,
         ReplaceCollides, ReplaceFails, ChangePassword, ChangePasswordSave
    <2>. QED BY <1>2, <2>1, HandleTypeInv, HandleObeyed, QuietFeedInv
  <1>3. CASE DeleteUser
    <2>1. UNCHANGED <<role, sms, wait, client>> BY <1>3 DEF DeleteUser
    <2>. QED BY <1>3, <2>1, DeleteTypeInv, DeleteObeyed, QuietFeedInv
  <1>4. CASE \E sim \in SIMs : DeleteModem(sim)
    BY <1>4, DeleteTypeInv, DeleteObeyed, SMSFeedInv
  <1>5. CASE \/ \E flags \in SUBSET Perms : CreateMyAPIKey(flags)
             \/ RotateMyAPIKey \/ DeleteMyAPIKey \/ KeyExpires \/ Configure
    <2>1. UNCHANGED <<role, sms, wait, row, rules, update, history>>
      BY <1>5 DEF CreateMyAPIKey, RotateMyAPIKey, DeleteMyAPIKey, KeyExpires, Configure
    <2>2. /\ client'.filter = client.filter /\ client'.base = client.base
          /\ client'.after = client.after /\ client'.got = client.got
      <3>1. \/ client' = client \/ client' = [client EXCEPT !.holds = TRUE]
            \/ client' = [client EXCEPT !.holds = FALSE]
        BY <1>5 DEF CreateMyAPIKey, RotateMyAPIKey, DeleteMyAPIKey, KeyExpires, Configure
      <3>. QED BY <3>1 DEF TypeInv, Shape, Clients
    <2>. QED BY <1>5, <2>1, <2>2, KeyTypeInv, QuietObeyed, QuietFeedInv
  <1>6. CASE \E sim \in SIMs : CreateReceived(sim)
    BY <1>6, ReceivedTypeInv, QuietObeyed, SMSFeedInv DEF CreateReceived
  <1>7. CASE ToolWaitSMS \/ Wait \/ WaitFails
    <2>1. UNCHANGED <<row, rules, update, history>>
      BY <1>7 DEF ToolWaitSMS, Wait, WaitStart, WaitFinds, WaitTimesOut, WaitRefused, WaitFails,
         Answer
    <2>. QED BY <1>7, <2>1, WaitFeedInv, QuietObeyed
  <1>. QED BY <1>1, <1>2, <1>3, <1>4, <1>5, <1>6, <1>7 DEF Next

LEMMA SpecIInv == Spec => []IInv
  BY InitIInv, NextIInv, PTL DEF Spec

\* Type correctness of an account, its keys and its client.
THEOREM TypeCorrect == Spec => []TypeOK
  <1>1. IInv => TypeOK BY DEF IInv, TypeInv
  <1>. QED BY <1>1, SpecIInv, PTL

\* Whatever the role, the list of modems, the rules and the flags of the key are,
\* and however far a replacement of the rules has got: permissions.go lists a
\* modem or a message exactly when it lets an operation on it through, rules for
\* "*" apart.
THEOREM ListsAgreeWithChecks == Spec => []ListMatchesCheck
  <1>1. ASSUME IInv PROVE ListMatchesCheck
    <2> USE AccessAssumption
    <2> DEFINE Can(flags, sim, perm) ==
                 ActorCanAccessICCIDPermission(row.allowed, flags, sim, perm)
               Agree(listed, can) == (can => listed) /\ (listed => can \/ All \in DOMAIN rules)
    <2>1. \A flags \in SUBSET Perms, sim \in SIMs, perm \in Perms \cup {""} :
            Agree(Flag(flags, perm) /\ sim \in Shown(row.allowed, perm), Can(flags, sim, perm))
      <3> SUFFICES ASSUME NEW flags \in SUBSET Perms, NEW sim \in SIMs,
                          NEW perm \in Perms \cup {""}, Flag(flags, perm)
                   PROVE  Agree(sim \in Shown(row.allowed, perm), Can(flags, sim, perm))
        BY DEF ActorCanAccessICCIDPermission
      <3> DEFINE names == AllowedICCIDsForPermission(row.allowed, perm)
                 inList == {All, sim} \cap row.allowed # {}
      <3>1. CASE role = "admin"
        BY <3>1 DEF Shown, ActorCanAccessICCIDPermission, UserCanAccessICCID
      <3>2. CASE role # "admin"
        <4>1. Can(flags, sim, perm) <=>
                inList /\ (DOMAIN rules = {} \/ (sim \in DOMAIN rules /\ Flag(rules[sim], perm)))
          BY <3>2 DEF ActorCanAccessICCIDPermission, UserCanAccessICCID
        <4>2. sim \in Shown(row.allowed, perm) <=> sim \in names \/ All \in names
          BY <3>2 DEF Shown
        <4>3. CASE row.allowed = {} \/ DOMAIN rules = {}
          <5>1. names = IF All \in row.allowed THEN {All} ELSE row.allowed
            BY <4>3 DEF AllowedICCIDsForPermission
          <5>2. (sim \in names \/ All \in names) <=> inList BY <5>1
          <5>. QED BY <4>1, <4>2, <4>3, <5>2
        <4>4. CASE ~(row.allowed = {} \/ DOMAIN rules = {})
          <5>1. names = {n \in DOMAIN rules : /\ {All, n} \cap row.allowed # {}
                                              /\ Flag(rules[n], perm)}
            BY <4>4 DEF AllowedICCIDsForPermission
          <5>2. sim \in names <=> inList /\ sim \in DOMAIN rules /\ Flag(rules[sim], perm)
            BY <5>1
          <5>3. All \in names => All \in DOMAIN rules BY <5>1
          <5>. QED BY <4>1, <4>2, <4>4, <5>2, <5>3
        <4>. QED BY <4>3, <4>4
      <3>. QED BY <3>1, <3>2
    <2>2. \A i \in {j \in DOMAIN sms : sms[j] # Gone} : sms[i] \in SIMs
      <3>1. sms \in Seq(SIMs \cup {Gone}) BY <1>1 DEF IInv, TypeInv, TypeOK
      <3>. QED BY <3>1
    <2>3. \A flags \in SUBSET Perms, sim \in SIMs :
            Agree(sim \in ListModems(row.allowed, flags), Can(flags, sim, ""))
      BY <2>1 DEF ListModems
    <2>4. \A flags \in SUBSET Perms, sim \in SIMs, perm \in Perms :
            Agree(sim \in ToolListModems(row.allowed, flags, perm), Can(flags, sim, perm))
      BY <2>1 DEF ToolListModems
    <2>5. \A flags \in SUBSET Perms, i \in {j \in DOMAIN sms : sms[j] # Gone} :
            Agree(i \in ListSMS(row.allowed, flags), Can(flags, sms[i], View))
      BY <2>1, <2>2 DEF ListSMS
    <2>. QED BY <2>3, <2>4, <2>5 DEF ListMatchesCheck
  <1>2. IInv => ListMatchesCheck BY <1>1
  <1>. QED BY <1>2, SpecIInv, PTL

\* UpdateUserPermissions, ChangePassword, DeleteUser and DeleteModem, statement by
\* statement and in any number of requests at once: the row is always the one
\* asked for unless a stale one was saved over it, and the rules are once no
\* replacement is under way, unless the last order's were interfered with.
THEOREM AccountSettles == Spec => []SettledAsOrdered
  <1>1. ASSUME IInv PROVE SettledAsOrdered
    <2>1. latest \in Handlers BY <1>1 DEF IInv, TypeInv, TypeOK
    <2>. QED BY <1>1, <2>1 DEF IInv, Obeyed, LastOrderObeyed, SettledAsOrdered
  <1>. QED BY <1>1, SpecIInv, PTL

\* toolWaitSMS: after the first position the client was handed, next_after_id never
\* passes a message that was not returned, whatever calls end in errors.
THEOREM FeedMissesNothing == Spec => []NothingSkipped
  <1>1. IInv => NothingSkipped BY DEF IInv
  <1>. QED BY <1>1, SpecIInv, PTL
=============================================================================
