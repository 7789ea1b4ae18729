------------------------------- MODULE Access -------------------------------
(***************************************************************************)
(* One account of the application: its row in users, its rule rows in      *)
(* user_modem_permissions, its API key, and a client that follows new SMS  *)
(* with that key through the wait_sms tool of the MCP server               *)
(* (internal/api: permissions.go, user_handler.go, apikey_handler.go,      *)
(* middleware.go, mcp_server.go, and DeleteModem of modem_handler.go).     *)
(*                                                                         *)
(* Accounts share nothing but the modems and the SMS table, so one is      *)
(* enough.  Every access to the database is a step of its own: the         *)
(* handlers take no lock and, DeleteModem apart, open no transaction.      *)
(* gorm's Save writes the whole row that the handler read earlier and,     *)
(* when the row has been deleted meanwhile, brings it back.                *)
(***************************************************************************)
EXTENDS Naturals, Sequences, FiniteSetsExt

CONSTANTS SIMs,        \* the ICCIDs
          Perms,       \* make_call, view_sms, send_sms, send_at
          View,        \* view_sms
          Orders,      \* what administrators ask for: [allowed, rules]
          Handlers,    \* requests that may be served at the same time
          Filters,     \* the iccid argument of the client: a SIM, or "*" for none
          MaxRecords,  \* max_records of the wait_sms calls
          MaxSMS,      \* bound: messages received
          MaxOps       \* bound: operations on the account and its key, and failures

\* "*" in an allowed_modems list stands for every modem.
All == "*"
Names == SIMs \cup {All}

Gone == "gone"   \* in place of the SIM of a message that was deleted

\* The rules of an order: some names, each with the permissions it gets.
RuleSets == UNION {[names -> SUBSET Perms] : names \in SUBSET Names}

ASSUME AccessAssumption ==
    /\ View \in Perms
    /\ All \notin SIMs /\ Gone \notin SIMs
    /\ Orders \subseteq [allowed : SUBSET Names, rules : RuleSets]
    /\ Filters \subseteq Names
    /\ Handlers # {}
    /\ MaxRecords \in Nat \ {0} /\ MaxSMS \in Nat /\ MaxOps \in Nat

VARIABLES role,      \* users.role, set when the account is created
          row,       \* the rest of the users row: [live, allowed, hash]
          rules,     \* the rule rows, one for each name that has one
          key,       \* the API key: [state, flags]
          update,    \* what each handler does to the account, with the row it read
          sms,       \* the SMS table: the SIM of each id, or Gone
          wait,      \* the wait_sms call under way: [at, allowed, after]
          client,    \* what the client knows: [holds, filter, base, after, got]
          ops,       \* how many operations have begun, up to MaxOps
          ordered,   \* history: the row and the rules last asked for
          latest,    \* history: the handler whose order was saved last
          lost,      \* history: a row that had changed was saved over
          torn       \* history: the rules of the last order were interfered with

account == <<role, row, rules, key>>
history == <<ordered, latest, lost, torn>>
vars == <<account, update, sms, wait, client, ops, history>>

NoRow == [live |-> FALSE, allowed |-> {}, hash |-> 0]
Rows == [live : BOOLEAN, allowed : SUBSET Names, hash : 0 .. MaxOps]
NoRules == [n \in {} |-> {}]
Unset == MaxSMS + 1        \* no after_id
NoWait == [at |-> "idle", allowed |-> {}, after |-> Unset]
Operation == ops < MaxOps /\ ops' = ops + 1
NoUpdate == [at |-> "idle", row |-> NoRow, hash |-> 0,
             order |-> [allowed |-> {}, rules |-> NoRules], todo |-> {}]

Only(f, names) == [n \in DOMAIN f \cap names |-> f[n]]
SmallestOf(S, n) == {i \in S : Cardinality({j \in S : j < i}) < n}
Latest(S) == Max(S \cup {0})

-----------------------------------------------------------------------------
(* The permission checks, permissions.go.  Permission "" asks for any.     *)

Flag(flags, perm) == IF perm = "" THEN flags # {} ELSE perm \in flags

UserCanAccessICCID(allowed, sim) == role = "admin" \/ {All, sim} \cap allowed # {}

\* Mutant: the rules of modems no longer allowed still count.
AllowedByRuleAlone(allowed, perm) ==
    IF allowed = {} \/ DOMAIN rules = {}
    THEN IF All \in allowed THEN {All} ELSE allowed
    ELSE {n \in DOMAIN rules : Flag(rules[n], perm)}

AllowedICCIDsForPermission(allowed, perm) ==
    IF allowed = {} \/ DOMAIN rules = {}
    THEN IF All \in allowed THEN {All} ELSE allowed
    ELSE {n \in DOMAIN rules : /\ {All, n} \cap allowed # {}
                               /\ Flag(rules[n], perm)}

\* The modems a query is limited to, for want of the wildcard.
Shown(allowed, perm) ==
    LET names == AllowedICCIDsForPermission(allowed, perm)
    IN  IF role = "admin" \/ All \in names THEN SIMs ELSE names \cap SIMs

\* ListModems: the modems with any permission.
ListModems(allowed, flags) == IF Flag(flags, "") THEN Shown(allowed, "") ELSE {}

\* toolListModems: those with one permission, which the key has.
ToolListModems(allowed, flags, perm) ==
    IF Flag(flags, perm) THEN Shown(allowed, perm) ELSE {}

\* ListSMS and toolListSMS, without an iccid: the messages of the modems shown.
ListSMS(allowed, flags) ==
    {i \in DOMAIN sms : Flag(flags, View) /\ sms[i] \in Shown(allowed, View)}

\* The check before an operation on one modem.  The count of the rules and
\* the rule are two queries; rules changed in between only refuse more.
ActorCanAccessICCIDPermission(allowed, flags, sim, perm) ==
    /\ UserCanAccessICCID(allowed, sim)
    /\ Flag(flags, perm)
    /\ \/ role = "admin"
       \/ DOMAIN rules = {}
       \/ sim \in DOMAIN rules /\ Flag(rules[sim], perm)

UserHasAnyPermission(perm) ==
    role = "admin" \/ AllowedICCIDsForPermission(row.allowed, perm) # {}

-----------------------------------------------------------------------------
(* Users and their permissions, user_handler.go.                           *)

Kept(order) ==
    Only(order.rules, IF All \in order.allowed THEN Names ELSE order.allowed)

\* CreateUser has inserted the row and goes on to the rules.
Init ==
    \E order \in Orders : LET h == CHOOSE g \in Handlers : TRUE IN
        /\ role \in {"admin", "user"}
        /\ row = [live |-> TRUE, allowed |-> order.allowed, hash |-> 0]
        /\ rules = NoRules
        /\ key = [state |-> "none", flags |-> {}]
        /\ update = [g \in Handlers |->
                       IF g = h THEN [NoUpdate EXCEPT !.at = "clear", !.order = order]
                       ELSE NoUpdate]
        /\ sms = <<>>
        /\ wait = NoWait
        /\ client \in [holds : {FALSE}, filter : Filters, base : {Unset},
                       after : {Unset}, got : {{}}]
        /\ ops = 0
        /\ ordered = [row |-> row, rules |-> Kept(order)]
        /\ latest = h /\ lost = FALSE /\ torn = FALSE

\* UpdateUserPermissions reads the row and refuses administrators.
UpdateUserPermissions(h, order) ==
    /\ Operation
    /\ update[h].at = "idle" /\ row.live /\ role # "admin"
    /\ update' = [update EXCEPT ![h] = [NoUpdate EXCEPT !.at = "save", !.row = row,
                                                       !.order = order]]
    /\ UNCHANGED <<account, sms, wait, client, history>>

\* It saves the row it has read, with the new allowed_modems.
UpdateSave(h) ==
    /\ update[h].at = "save"
    /\ row' = [update[h].row EXCEPT !.allowed = update[h].order.allowed]
    /\ update' = [update EXCEPT ![h].at = "clear"]
    /\ ordered' = [row |-> [ordered.row EXCEPT !.allowed = update[h].order.allowed],
                   rules |-> Kept(update[h].order)]
    /\ lost' = (lost \/ row # update[h].row)
    /\ latest' = h /\ torn' = FALSE
    /\ UNCHANGED <<role, rules, key, sms, wait, client, ops>>

\* What an older request does to the rules no longer matters only as long as
\* the handler of the last order has yet to delete them.
Disturbs(h) == h # latest /\ update[latest].at # "clear"

\* replaceUserPermissions deletes every rule of the account ...
ReplaceClear(h) ==
    /\ update[h].at = "clear"
    /\ rules' = NoRules
    /\ LET todo == DOMAIN Kept(update[h].order)
       IN  update' = [update EXCEPT ![h] = IF todo = {} THEN NoUpdate
                                           ELSE [@ EXCEPT !.at = "insert", !.todo = todo]]
    /\ torn' = (torn \/ Disturbs(h))
    /\ UNCHANGED <<role, row, key, sms, wait, client, ops, ordered, latest, lost>>

\* ... and inserts the new ones, each in a statement of its own.
ReplaceInsert(h, n) ==
    /\ update[h].at = "insert" /\ n \in update[h].todo
    /\ n \notin DOMAIN rules
    /\ rules' = [m \in DOMAIN rules \cup {n} |->
                    IF m = n THEN update[h].order.rules[n] ELSE rules[m]]
    /\ LET left == update[h].todo \ {n}
       IN  update' = [update EXCEPT ![h] = IF left = {} THEN NoUpdate
                                           ELSE [@ EXCEPT !.todo = left]]
    /\ torn' = (torn \/ Disturbs(h))
    /\ UNCHANGED <<role, row, key, sms, wait, client, ops, ordered, latest, lost>>

\* Another request has inserted a rule for the name: the unique index refuses
\* a second one and the handler answers 500.
ReplaceCollides(h) ==
    /\ update[h].at = "insert" /\ update[h].todo \cap DOMAIN rules # {}
    /\ update' = [update EXCEPT ![h] = NoUpdate]
    /\ torn' = (torn \/ h = latest)
    /\ UNCHANGED <<account, sms, wait, client, ops, ordered, latest, lost>>

\* A statement fails: the handler answers 500 and leaves what is done.
ReplaceFails(h) ==
    /\ Operation
    /\ update[h].at # "idle"
    /\ torn' = (torn \/ (h = latest /\ update[h].at \in {"clear", "insert"}))
    /\ update' = [update EXCEPT ![h] = NoUpdate]
    /\ UNCHANGED <<account, sms, wait, client, ordered, latest, lost>>

\* The middleware has read the row; the old password is right, and bcrypt
\* hashes the new one, for about a second.
ChangePassword(h) ==
    /\ Operation
    /\ update[h].at = "idle" /\ row.live
    /\ update' = [update EXCEPT ![h] = [NoUpdate EXCEPT !.at = "hash", !.row = row,
                                                       !.hash = ops']]
    /\ UNCHANGED <<account, sms, wait, client, history>>

\* The row read before the hashing is saved with the new hash.
ChangePasswordSave(h) ==
    /\ update[h].at = "hash"
    /\ row' = [update[h].row EXCEPT !.hash = update[h].hash]
    /\ update' = [update EXCEPT ![h] = NoUpdate]
    /\ ordered' = [ordered EXCEPT !.row.hash = update[h].hash]
    /\ lost' = (lost \/ row # update[h].row)
    /\ UNCHANGED <<role, rules, key, sms, wait, client, ops, latest, torn>>

\* DeleteUser: the rules and the key of the account stay.
DeleteUser ==
    /\ Operation
    /\ row.live
    /\ row' = [row EXCEPT !.live = FALSE]
    /\ ordered' = [ordered EXCEPT !.row.live = FALSE]
    /\ UNCHANGED <<role, rules, key, update, sms, wait, client, latest, lost, torn>>

\* removeICCIDFromAllowedList: a list that is just "*" is left alone.
RemoveICCIDFromAllowedList(allowed, sim) == allowed \ {sim}

\* Mutant: the rules of the deleted SIM stay.
DeleteModemKeepsRules(sim) ==
    /\ Operation
    /\ sim \in DOMAIN rules
    /\ sms' = [i \in DOMAIN sms |-> IF sms[i] = sim THEN Gone ELSE sms[i]]
    /\ row' = [row EXCEPT !.allowed = RemoveICCIDFromAllowedList(@, sim)]
    /\ ordered' = [row |-> [ordered.row EXCEPT
                               !.allowed = RemoveICCIDFromAllowedList(@, sim)],
                   rules |-> Only(ordered.rules, Names \ {sim})]
    /\ torn' = (torn \/ update[latest].at \in {"clear", "insert"})
    /\ UNCHANGED <<role, rules, key, update, wait, client, latest, lost>>

\* DeleteModem, one transaction: the SMS and the rules of the SIM go, and
\* the SIM leaves the lists of the accounts that are not deleted.
DeleteModem(sim) ==
    LET Clean(r) == IF r.live
                    THEN [r EXCEPT !.allowed = RemoveICCIDFromAllowedList(@, sim)]
                    ELSE r
    IN  /\ Operation
        /\ \/ \E i \in DOMAIN sms : sms[i] = sim
           \/ sim \in DOMAIN rules \cup row.allowed
        /\ sms' = [i \in DOMAIN sms |-> IF sms[i] = sim THEN Gone ELSE sms[i]]
        /\ rules' = Only(rules, Names \ {sim})
        /\ row' = Clean(row)
        /\ ordered' = [row |-> Clean(ordered.row),
                       rules |-> Only(ordered.rules, Names \ {sim})]
        /\ torn' = (torn \/ update[latest].at \in {"clear", "insert"})
        /\ UNCHANGED <<role, key, update, wait, client, latest, lost>>

-----------------------------------------------------------------------------
(* API keys, apikey_handler.go.                                            *)

\* CreateMyAPIKey: what is asked for, as far as the account has it somewhere.
CreateMyAPIKey(flags) ==
    LET granted == {p \in flags : UserHasAnyPermission(p)}
    IN  /\ Operation
        /\ row.live /\ key.state = "none" /\ granted # {}
        /\ key' = [state |-> "valid", flags |-> granted]
        /\ client' = [client EXCEPT !.holds = TRUE]
        /\ UNCHANGED <<role, row, rules, update, sms, wait, history>>

\* RotateMyAPIKey replaces the hash: what clients hold is no longer a key.
\* Neither the permissions nor the expiry date change.
RotateMyAPIKey ==
    /\ row.live /\ key.state # "none"
    /\ client' = [client EXCEPT !.holds = FALSE]
    /\ UNCHANGED <<account, update, sms, wait, ops, history>>

DeleteMyAPIKey ==
    /\ Operation
    /\ row.live /\ key.state # "none"
    /\ key' = [state |-> "none", flags |-> {}]
    /\ client' = [client EXCEPT !.holds = FALSE]
    /\ UNCHANGED <<role, row, rules, update, sms, wait, history>>

\* expires_at passes.
KeyExpires ==
    /\ Operation
    /\ key.state = "valid"
    /\ key' = [key EXCEPT !.state = "expired"]
    /\ UNCHANGED <<role, row, rules, update, sms, wait, client, history>>

\* The owner gives the client the rotated key (outside the program).
Configure ==
    /\ key.state # "none" /\ ~client.holds
    /\ client' = [client EXCEPT !.holds = TRUE]
    /\ UNCHANGED <<account, update, sms, wait, ops, history>>

-----------------------------------------------------------------------------
(* The wait_sms tool, mcp_server.go.                                       *)

\* A worker stores a message; ids grow and are never used again.
CreateReceived(sim) ==
    /\ Len(sms) < MaxSMS
    /\ sms' = Append(sms, sim)
    /\ UNCHANGED <<account, update, wait, client, ops, history>>

\* scopedSMSQuery: the ids the query of this call returns, read with the row
\* and the flags of the authentication and the rules of now.
Refused == client.filter # All
           /\ ~ActorCanAccessICCIDPermission(wait.allowed, {View}, client.filter, View)
ScopedSMSQuery ==
    LET sims == IF client.filter # All THEN {client.filter}
                ELSE Shown(wait.allowed, View)
    IN  {i \in DOMAIN sms : sms[i] \in sims}

\* verifyAPIKeyToken and the key's own flag let the call in.
VerifyAPIKeyToken == client.holds /\ key.state = "valid" /\ row.live

\* Mutant: the tool asks for every flag of the key.
ToolWaitSMSAllFlags ==
    /\ wait.at = "idle" /\ VerifyAPIKeyToken /\ key.flags = Perms
    /\ wait' = [at |-> "start", allowed |-> row.allowed, after |-> client.after]
    /\ UNCHANGED <<account, update, sms, client, ops, history>>

\* The client passes the after_id it knows, if any.
ToolWaitSMS ==
    /\ wait.at = "idle" /\ VerifyAPIKeyToken /\ View \in key.flags
    /\ wait' = [at |-> "start", allowed |-> row.allowed, after |-> client.after]
    /\ UNCHANGED <<account, update, sms, client, ops, history>>

\* The first query; a call without an after_id starts at the latest visible id.
WaitStart ==
    /\ wait.at = "start" /\ ~Refused
    /\ wait' = [wait EXCEPT !.at = "poll",
                            !.after = IF @ = Unset THEN Latest(ScopedSMSQuery) ELSE @]
    /\ UNCHANGED <<account, update, sms, client, ops, history>>

\* The answer, the only thing that tells the client a position: the messages,
\* after_id and next_after_id.
Answer(new, next) ==
    /\ client' = [client EXCEPT !.got = @ \cup new, !.after = next,
                                !.base = IF @ = Unset THEN wait.after ELSE @]
    /\ wait' = NoWait
    /\ UNCHANGED <<account, update, sms, ops, history>>

\* Mutant: next_after_id is the latest id, though max_records cut the answer.
WaitFindsToLatest ==
    LET new == SmallestOf({i \in ScopedSMSQuery : i > wait.after}, MaxRecords)
    IN  /\ wait.at = "poll" /\ ~Refused /\ new # {}
        /\ Answer(new, Latest(ScopedSMSQuery))

\* One turn of the loop that finds messages; next_after_id is the last one.
WaitFinds ==
    LET new == SmallestOf({i \in ScopedSMSQuery : i > wait.after}, MaxRecords)
    IN  /\ wait.at = "poll" /\ ~Refused /\ new # {}
        /\ Answer(new, Latest(new))

\* A turn that finds nothing after the deadline; time is not modelled, so any
\* turn that finds nothing may be the last.
WaitTimesOut ==
    /\ wait.at = "poll" /\ ~Refused
    /\ \A i \in ScopedSMSQuery : i <= wait.after
    /\ Answer({}, wait.after)

\* A query is refused: the call ends in an error, which tells no position.
WaitRefused ==
    /\ wait.at # "idle" /\ Refused
    /\ wait' = NoWait
    /\ UNCHANGED <<account, update, sms, client, ops, history>>

\* A query fails or the connection breaks, at any point of the call.
WaitFails ==
    /\ Operation
    /\ wait.at # "idle"
    /\ wait' = NoWait
    /\ UNCHANGED <<account, update, sms, client, history>>

Wait == WaitStart \/ WaitFinds \/ WaitTimesOut \/ WaitRefused

Handle(h) ==
    \/ \E order \in Orders : UpdateUserPermissions(h, order)
    \/ UpdateSave(h)
    \/ ReplaceClear(h)
    \/ \E n \in Names : ReplaceInsert(h, n)
    \/ ReplaceCollides(h)
    \/ ReplaceFails(h)
    \/ ChangePassword(h)
    \/ ChangePasswordSave(h)

Next ==
    \/ \E h \in Handlers : Handle(h)
    \/ DeleteUser
    \/ \E sim \in SIMs : DeleteModem(sim)
    \/ \E flags \in SUBSET Perms : CreateMyAPIKey(flags)
    \/ RotateMyAPIKey
    \/ DeleteMyAPIKey
    \/ KeyExpires
    \/ Configure
    \/ \E sim \in SIMs : CreateReceived(sim)
    \/ ToolWaitSMS
    \/ Wait
    \/ WaitFails

Spec == Init /\ [][Next]_vars
\* A call that has begun is carried out, and the client calls again.
FairSpec == Spec /\ WF_vars(Wait) /\ SF_vars(ToolWaitSMS)
-----------------------------------------------------------------------------
\* Type invariant: the account's row, its rules and its key, and where a
\* replacement, a wait and the client stand; what is left to insert are the rules
\* that replaceUserPermissions keeps of its order.
TypeOK ==
    /\ role \in {"admin", "user"}
    /\ row \in Rows
    /\ rules \in RuleSets
    /\ key \in [state : {"none", "valid", "expired"}, flags : SUBSET Perms]
    /\ \A h \in Handlers :
         /\ update[h].at \in {"idle", "hash", "save", "clear", "insert"}
         /\ update[h].row \in Rows /\ update[h].hash \in 0 .. MaxOps
         /\ update[h].todo \subseteq DOMAIN Kept(update[h].order)
    /\ sms \in Seq(SIMs \cup {Gone}) /\ Len(sms) <= MaxSMS
    /\ wait.at \in {"idle", "start", "poll"}
    /\ wait.allowed \subseteq Names /\ wait.after \in 0 .. Unset
    /\ client.holds \in BOOLEAN /\ client.filter \in Filters
    /\ client.base \in 0 .. Unset /\ client.after \in 0 .. Unset
    /\ client.got \subseteq 1 .. MaxSMS
    /\ ops \in 0 .. MaxOps /\ latest \in Handlers /\ lost \in BOOLEAN /\ torn \in BOOLEAN

(* The lists and the checks of the single modem agree: a modem or a message *)
(* is listed, for a key with these flags, exactly when an operation of the  *)
(* same permission on that modem would be let through.  (A rule for the     *)
(* name "*", which the API accepts, lists every modem and lets through      *)
(* none.)                                                                   *)
ListMatchesCheck ==
    \A flags \in SUBSET Perms :
        LET Can(sim, perm) == ActorCanAccessICCIDPermission(row.allowed, flags, sim, perm)
            Agree(listed, can) == (can => listed) /\ (listed => can \/ All \in DOMAIN rules)
        IN  /\ \A sim \in SIMs :
                 /\ Agree(sim \in ListModems(row.allowed, flags), Can(sim, ""))
                 /\ \A perm \in Perms :
                      Agree(sim \in ToolListModems(row.allowed, flags, perm), Can(sim, perm))
            /\ \A i \in {j \in DOMAIN sms : sms[j] # Gone} :
                 Agree(i \in ListSMS(row.allowed, flags), Can(sms[i], View))

(* The account is the one last asked for: its modems, password and deletion *)
(* at any time, and its rules when no replacement is between its            *)
(* statements, however many overlapped; without the SIMs deleted since.     *)
(* Except when a handler saved a row over what changed after it had read it *)
(* (lost), and, for the rules, when a statement of the last order failed,   *)
(* or DeleteModem or an older request changed them after the last order had *)
(* begun with them (torn).                                                  *)
SettledAsOrdered ==
    /\ ~lost => row = ordered.row
    /\ ~torn /\ (\A h \in Handlers : update[h].at \notin {"clear", "insert"})
          => rules = ordered.rules

\* Message i is one of the stored messages the client always gets to see: of
\* the SIM it filters on, or any when it does not filter and is an
\* administrator's.  It comes after the after_id of the first answer; what
\* arrived while earlier calls ended in errors was promised to no one.
Awaited(i) ==
    /\ i \in DOMAIN sms /\ client.base < i
    /\ \/ sms[i] = client.filter
       \/ client.filter = All /\ role = "admin" /\ sms[i] # Gone

(* A client that passes next_after_id on misses nothing after the first     *)
(* position it was handed: every such message up to its current after_id    *)
(* has been returned, whatever calls failed and whatever happened to the    *)
(* key, the rules and the account between them.                             *)
NothingSkipped ==
    \A i \in DOMAIN sms : Awaited(i) /\ i <= client.after => i \in client.got

\* The client's calls are let in and find its SIM.
Served ==
    /\ VerifyAPIKeyToken /\ View \in key.flags
    /\ \/ client.filter = All
       \/ ActorCanAccessICCIDPermission(row.allowed, key.flags, client.filter, View)

(* When the account and the key stay such that the client is served, it is  *)
(* handed a position in the end, and every message after it is returned, or *)
(* goes with its modem.                                                     *)
FeedDelivers ==
    \A i \in 1 .. MaxSMS :
        <>[]Served => /\ <>(client.after # Unset)
                      /\ [](Awaited(i) => <>(i \in client.got \/ ~Awaited(i)))
=============================================================================
