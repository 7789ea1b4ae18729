---------------------------- MODULE CallGateway ----------------------------
(***************************************************************************)
(* The calls of one modem line: the worker's call control (Dial, Answer,   *)
(* Hangup, the call lines of the modem), the SIP gateway of the line and   *)
(* the call session the two meet in.  Goroutines: an onInvite handler per  *)
(* INVITE, the goroutine that rings the SIP phone for a call of the modem, *)
(* the handler of a BYE, the API handlers, the sync loop that replaces     *)
(* gateways, and the serial loop, which serves the AT transactions of the  *)
(* others and, between and within them, handles the lines of the modem.    *)
(*                                                                         *)
(* A listener of call states runs in the goroutine that changed the state, *)
(* so that any of these may find itself ending a call.  todo[a] is what    *)
(* goroutine a has still to do: the calls on its stack, cut where a mutex  *)
(* is taken or released.                                                   *)
(***************************************************************************)
EXTENDS Naturals, Sequences

CONSTANTS
    Invites,      \* INVITEs of the SIP side, with a handler and a leg each
    Rings,        \* calls of the modem, with a goroutine and a leg each
    Dials,        \* calls of DialSIP, with a handler and a leg each
    MaxSessions, MaxGateways,   \* bounds on their replacement
    MaxStarted,   \* bound on what the callers, the console and the sync loop start
    MaxLines,     \* bound on the lines of the modem not yet read
    None

Legs == Invites \cup Rings \cup Dials
Loop == "loop"
Actors == Legs \cup {Loop, "web", "bye", "sync"}
Sessions == 1..MaxSessions
Gateways == 1..MaxGateways

ASSUME NamesAssumption ==
    /\ Invites \cap Rings = {} /\ Dials \cap (Invites \cup Rings) = {}
    /\ Legs \cap {Loop, "web", "bye", "sync"} = {}
    /\ None \notin Actors /\ None \notin Sessions /\ None \notin Gateways

ASSUME BoundsAssumption ==
    /\ MaxGateways \in Nat \ {0} /\ MaxSessions \in Nat
    /\ MaxStarted \in Nat /\ MaxLines \in Nat

VARIABLES
    modem,    \* the modem: "none", "calling", "ringing", "talking"
    urcs,     \* the lines it sent and the loop has not read
    call,     \* w.call: state, Incoming, IncomingRinging
    opMu,     \* the goroutine that holds w.callOpMu
    uac,      \* w.uacReady: "ready", "unready", or "gone" with the port in a reboot
    gw,       \* the gateway of the line, or the one it had last
    up,       \* whether it is in m.sipGateways
    active,   \* g.active of each gateway
    session,  \* the session of the line in m.sessions, or None ...
    sessions, \* ... and the number made
    sipCall,  \* s.sipCall of each session
    stuck,    \* the sessions whose sipMu is never released
    closing,  \* closeOnce of a leg's call: "open", "running", "done"
    byModem,  \* the legs with endedByModem
    invite,   \* leg.inviteCancel of a ring: "none", "armed", "cancelled"
    ofGw, ofSession,  \* the gateway and the session a leg belongs to
    todo,     \* what a goroutine has still to do
    started,  \* the number of things they started (see MaxStarted)
    owner,    \* history: the goroutine that placed or answered the modem's call
    races     \* history: the races that happened (see the properties)

workerVars == <<modem, urcs, call, opMu, uac>>
gatewayVars == <<gw, up, active, invite, ofGw>>
sessionVars == <<session, sessions, sipCall, stuck, ofSession>>
legVars == <<closing, byModem>>
vars == <<workerVars, gatewayVars, sessionVars, legVars, todo, started, owner, races>>

CallState(state, incoming, ringing) ==
    [state |-> state, incoming |-> incoming, ringing |-> ringing]
Idle == CallState("idle", FALSE, FALSE)

Init ==
    /\ modem = "none" /\ urcs = <<>> /\ call = Idle
    /\ opMu = None /\ uac = "ready"
    /\ gw = 1 /\ up = TRUE /\ active = [g \in Gateways |-> None]
    /\ session = None /\ sessions = 0
    /\ sipCall = [s \in Sessions |-> None] /\ stuck = {}
    /\ closing = [l \in Legs |-> "open"]
    /\ byModem = {}
    /\ invite = [l \in Legs |-> "none"]
    /\ ofGw = [l \in Legs |-> None]
    /\ ofSession = [l \in Legs |-> None]
    /\ todo = [a \in Actors |-> <<>>]
    /\ started = 0
    /\ owner = None
    /\ races = {}

-----------------------------------------------------------------------------
(* The modem and the other ends.                                           *)

Started == started < MaxStarted /\ started' = started + 1

\* The called party answers; the module reports the call as active.
RemoteAnswers ==
    /\ modem = "calling" /\ Len(urcs) < MaxLines
    /\ modem' = "talking"
    /\ urcs' = Append(urcs, "ACTIVE")
    /\ UNCHANGED <<call, opMu, uac, gatewayVars, sessionVars, legVars, todo, started, owner, races>>

\* A call comes in, as long as a leg is left for it.
RemoteRings ==
    /\ modem = "none" /\ uac # "gone" /\ Len(urcs) + 1 < MaxLines
    /\ \E m \in Rings : ofGw[m] = None
    /\ Started
    /\ modem' = "ringing"
    /\ urcs' = urcs \o <<"RING", "CLCC">>
    /\ UNCHANGED <<call, opMu, uac, gatewayVars, sessionVars, legVars, todo, owner, races>>

\* The other end hangs up, or does not answer.
RemoteEnds ==
    /\ modem # "none" /\ Len(urcs) < MaxLines
    /\ modem' = "none"
    /\ urcs' = Append(urcs, "NO CARRIER")
    /\ UNCHANGED <<call, opMu, uac, gatewayVars, sessionVars, legVars, todo, started, owner, races>>

-----------------------------------------------------------------------------
(* Steps of a goroutine.                                                   *)

\* Goroutine a is about to do op with argument x.
Doing(a, op, x) == todo[a] # <<>> /\ Head(todo[a]) = <<op, x>>
\* It goes on with these steps, then with the rest.
Then(a, steps) == todo' = [todo EXCEPT ![a] = steps \o Tail(@)]
Race(r) == races' = races \cup r

\* notifyCallStateChanged calls the listener main registers, in this goroutine.
\* Once the audio device is not ready the listener takes every state for idle.
\* (A report of a call in progress makes it do nothing.)
Reported(x) == IF uac = "ready" THEN x ELSE [x EXCEPT !.state = "idle"]
Notify(x) == IF Reported(x).state = "idle" \/ x.ringing THEN <<<<"sync", Reported(x)>>>> ELSE <<>>

\* setCallStateWithMeta: a change is stored and then, with no lock held,
\* reported to the listeners.  (Without a change in these fields there may be
\* one in the reason.)
SetCallState(a, x) ==
    /\ Doing(a, "set", x)
    /\ call' = x
    /\ \/ x = call /\ Then(a, <<>>)
       \/ Then(a, Notify(x))
    /\ Race(IF /\ x.state # "idle" /\ modem = "none"
               /\ \A i \in 1..Len(urcs) : urcs[i] # "NO CARRIER"
            THEN {"late"} ELSE {})
    /\ UNCHANGED <<modem, urcs, opMu, uac, gatewayVars, sessionVars, legVars, started, owner>>

\* EnsureSession: the session of the line, or a new one.
Ensured == IF session = None THEN sessions + 1 ELSE session
EnsureSession ==
    /\ Ensured \in Sessions
    /\ session' = Ensured
    /\ sessions' = IF session = None THEN Ensured ELSE sessions

\* startModemIncomingInvite: a leg is made for the call of the modem.
StartModemIncomingInvite(a) ==
    LET m == CHOOSE m \in Rings : ofGw[m] = None
    IN  /\ Then(a, <<<<"claim", m>>>>)
        /\ ofGw' = [ofGw EXCEPT ![m] = gw]
        /\ ofSession' = [ofSession EXCEPT ![m] = Ensured]
        /\ EnsureSession
        /\ UNCHANGED <<sipCall, stuck>>

\* The listener: syncModemState of the line's gateway; without one the event is
\* dropped.
SyncModemState(a, x) ==
    LET leg == active[gw]
        rings == up /\ leg = None /\ x.ringing
                   /\ Ensured \in Sessions /\ \E m \in Rings : ofGw[m] = None
    IN  /\ Doing(a, "sync", x)
        /\ IF x.state = "idle" /\ up
           THEN /\ Then(a, <<IF leg # None THEN <<"endLeg", leg>>
                                           ELSE <<"endSession", None>>>>)
                /\ UNCHANGED <<ofGw, sessionVars>>
           ELSE IF x.state # "idle" /\ rings
           THEN StartModemIncomingInvite(a)
           ELSE Then(a, <<>>) /\ UNCHANGED <<ofGw, sessionVars>>
        /\ Race(IF x = Idle /\ call # Idle THEN {"late"} ELSE {})
        /\ UNCHANGED <<workerVars, gw, up, active, invite, legVars, started, owner>>

\* Mutant of EndLegFromModem: the leg is not marked.
EndLegFromModemUnmarked(a, l) ==
    /\ Doing(a, "endLeg", l)
    /\ IF active[ofGw[l]] # l
       THEN Then(a, <<<<"endSession", None>>>>) /\ UNCHANGED <<byModem, invite>>
       ELSE /\ IF invite[l] # "none"
               THEN invite' = [invite EXCEPT ![l] = "cancelled"] /\ Then(a, <<>>)
               ELSE Then(a, <<<<"close", l>>>>) /\ UNCHANGED invite
            /\ UNCHANGED byModem
    /\ UNCHANGED <<workerVars, gw, up, active, ofGw, sessionVars, closing, started, owner, races>>

\* Mutant of EndLegFromModem: only a ring is ended, an answered leg is not.
EndLegFromModemRingOnly(a, l) ==
    /\ Doing(a, "endLeg", l)
    /\ byModem' = byModem \cup {l}
    /\ invite' = [invite EXCEPT ![l] = IF @ = "armed" THEN "cancelled" ELSE @]
    /\ Then(a, <<>>)
    /\ UNCHANGED <<workerVars, gw, up, active, ofGw, sessionVars, closing, started, owner, races>>

\* endLegFromModem: the leg is marked, so that its end does not hang up the
\* modem; a ring still waiting for the phone is cancelled (again, if it has been),
\* any other leg gets a BYE and is closed.
EndLegFromModem(a, l) ==
    /\ Doing(a, "endLeg", l)
    /\ IF active[ofGw[l]] # l
       THEN Then(a, <<<<"endSession", None>>>>) /\ UNCHANGED <<byModem, invite>>
       ELSE /\ byModem' = byModem \cup {l}
            /\ IF invite[l] # "none"
               THEN invite' = [invite EXCEPT ![l] = "cancelled"] /\ Then(a, <<>>)
               ELSE Then(a, <<<<"close", l>>>>) /\ UNCHANGED invite
    /\ UNCHANGED <<workerVars, gw, up, active, ofGw, sessionVars, closing, started, owner, races>>

\* endSessionCallFromModem: without an active leg, the call of the session is
\* closed, if the modem controls it.
EndSessionCallFromModem(a) ==
    LET l == IF session = None THEN None ELSE sipCall[session]
    IN  /\ Doing(a, "endSession", None) /\ session \notin stuck
        /\ IF l = None \/ l \in Dials
           THEN Then(a, <<>>) /\ UNCHANGED races
           ELSE Then(a, <<<<"close", l>>>>) /\ Race({"gap"})
        /\ UNCHANGED <<workerVars, gatewayVars, sessionVars, legVars, started, owner>>

\* The handler of a leg is still at work, or the leg is still being set up.
Starting(l) ==
    \/ todo[l] # <<>>
    \/ \E a \in Actors : \E i \in 1..Len(todo[a]) : todo[a][i] = <<"claimLine", l>>

\* sipClientCall.Close: closeOnce lets one goroutine close the call, the
\* others wait until it is closed.
Close(a, l) ==
    /\ Doing(a, "close", l)
    /\ \/ /\ closing[l] = "open"
          /\ closing' = [closing EXCEPT ![l] = "running"]
          /\ Then(a, <<<<"legEnded", l>>>>)
          /\ Race(IF a # l /\ l \notin Dials /\ Starting(l) THEN {"early"} ELSE {})
       \/ /\ closing[l] = "done"
          /\ Then(a, <<>>)
          /\ UNCHANGED <<closing, races>>
    /\ UNCHANGED <<workerVars, gatewayVars, sessionVars, byModem, started, owner>>

\* Mutants of HandleLegEnded: the leg stays active; the modem is not hung up.
HandleLegEndedKeepsActive(a, l) ==
    /\ Doing(a, "legEnded", l)
    /\ invite' = [invite EXCEPT ![l] = IF @ = "armed" THEN "cancelled" ELSE @]
    /\ Then(a, <<<<"clearSip", l>>>>
                 \o (IF l \in byModem \cup Dials THEN <<>> ELSE <<<<"hangup", None>>>>)
                 \o <<<<"closed", l>>>>)
    /\ UNCHANGED <<workerVars, gw, up, active, ofGw, sessionVars, legVars, started, owner, races>>

HandleLegEndedLeavesModem(a, l) ==
    /\ Doing(a, "legEnded", l)
    /\ active' = [g \in Gateways |-> IF active[g] = l THEN None ELSE active[g]]
    /\ invite' = [invite EXCEPT ![l] = IF @ = "armed" THEN "cancelled" ELSE @]
    /\ Then(a, <<<<"clearSip", l>>, <<"closed", l>>>>)
    /\ UNCHANGED <<workerVars, gw, up, ofGw, sessionVars, legVars, started, owner, races>>

\* onEnded, first part under g.mu: handleLegEnded gives up the place of the
\* active leg and decides whether the modem is to be hung up.  A call of
\* DialSIP has no gateway and no modem.
HandleLegEnded(a, l) ==
    /\ Doing(a, "legEnded", l)
    /\ active' = [g \in Gateways |-> IF active[g] = l THEN None ELSE active[g]]
    /\ invite' = [invite EXCEPT ![l] = IF @ = "armed" THEN "cancelled" ELSE @]
    /\ Then(a, <<<<"clearSip", l>>>>
                 \o (IF l \in byModem \cup Dials THEN <<>> ELSE <<<<"hangup", None>>>>)
                 \o <<<<"closed", l>>>>)
    /\ UNCHANGED <<workerVars, gw, up, ofGw, sessionVars, legVars, started, owner, races>>

\* ... second part, under s.sipMu.
ClearSipCall(a, l) ==
    /\ Doing(a, "clearSip", l) /\ ofSession[l] \notin stuck
    /\ sipCall' = [s \in Sessions |-> IF sipCall[s] = l THEN None ELSE sipCall[s]]
    /\ Then(a, <<>>)
    /\ UNCHANGED <<workerVars, gatewayVars, session, sessions, stuck, ofSession, legVars, started, owner, races>>

Closed(a, l) ==
    /\ Doing(a, "closed", l)
    /\ closing' = [closing EXCEPT ![l] = "done"]
    /\ Then(a, <<>>)
    /\ UNCHANGED <<workerVars, gatewayVars, sessionVars, byModem, started, owner, races>>

-----------------------------------------------------------------------------
(* Dial, Answer and Hangup of the worker.  callOpMu is held from here to   *)
(* "unlock"; "at" waits for the serial loop.                               *)

\* What a call attempt does when it fails: its leg is closed, the web console
\* closes the session.
GiveUp(a) == IF a = "web" THEN <<<<"closeSession", None>>>> ELSE <<<<"close", a>>>>

\* A Dial that is refused ends the request: onInvite closes its leg and returns.
Dial(a) ==
    /\ Doing(a, "dial", None)
    /\ opMu = None
    /\ IF call.state # "idle"
       THEN todo' = [todo EXCEPT ![a] = GiveUp(a)] /\ UNCHANGED opMu
       ELSE opMu' = a /\ Then(a, <<<<"at", "ATD">>>>)
    /\ UNCHANGED <<modem, urcs, call, uac, gatewayVars, sessionVars, legVars, started, owner, races>>

Answer(a) ==
    /\ Doing(a, "answer", None)
    /\ opMu = None
    /\ IF call.state = "idle" \/ ~call.incoming
       THEN Then(a, GiveUp(a)) /\ UNCHANGED opMu
       ELSE opMu' = a /\ Then(a, <<<<"at", "ATA">>>>)
    /\ UNCHANGED <<modem, urcs, call, uac, gatewayVars, sessionVars, legVars, started, owner, races>>

\* Hangup of a call it holds for idle only turns the audio off.
Hangup(a) ==
    /\ Doing(a, "hangup", None)
    /\ opMu = None
    /\ opMu' = a
    /\ Then(a, <<<<"at", IF call.state = "idle" THEN "QPCMV" ELSE "ATH">>>>)
    /\ UNCHANGED <<modem, urcs, call, uac, gatewayVars, sessionVars, legVars, started, owner, races>>

Unlock(a) ==
    /\ Doing(a, "unlock", None)
    /\ opMu' = None
    /\ Then(a, <<>>)
    /\ UNCHANGED <<modem, urcs, call, uac, gatewayVars, sessionVars, legVars, started, owner, races>>

Commands == {"ATD", "ATA", "ATH", "QPCMV", "CFUN"}

Unlocked == <<<<"unlock", None>>>>

\* Mutant of Accepted: Hangup does not set the call to idle.
AcceptedNoIdle(c) ==
    CASE c = "ATD" -> <<<<"set", CallState("dialing", FALSE, FALSE)>>,
                        <<"set", CallState("in_call", FALSE, FALSE)>>>> \o Unlocked
      [] c = "ATA" -> <<<<"set", CallState("in_call", TRUE, FALSE)>>>> \o Unlocked
      [] c \in {"ATH", "QPCMV"} -> Unlocked
      [] c = "CFUN" -> <<>>

\* What the caller does after OK, and after an error or a timeout.
Accepted(c) ==
    CASE c = "ATD" -> <<<<"set", CallState("dialing", FALSE, FALSE)>>,
                        <<"set", CallState("in_call", FALSE, FALSE)>>>> \o Unlocked
      [] c = "ATA" -> <<<<"set", CallState("in_call", TRUE, FALSE)>>>> \o Unlocked
      [] c \in {"ATH", "QPCMV"} -> <<<<"set", Idle>>>> \o Unlocked
      [] c = "CFUN" -> <<>>

Refused(a, c) ==
    CASE c = "ATD" -> <<<<"set", Idle>>>> \o Unlocked \o GiveUp(a)
      [] c = "ATA" -> Unlocked \o GiveUp(a)
      [] c = "ATH" -> Unlocked
      [] c = "QPCMV" -> Accepted(c)
      [] c = "CFUN" -> <<>>

\* An error ends the call attempt, and the hangup request of the web console.
Abandons(c, rest) ==
    \/ c \in {"ATD", "ATA"}
    \/ c = "ATH" /\ rest # <<>> /\ Head(rest) = <<"closeSession", None>>

\* What a command does to the modem.
Effect(c) ==
    CASE c = "ATD" /\ modem = "none" -> "calling"
      [] c = "ATA" /\ modem = "ringing" -> "talking"
      [] c \in {"ATH", "CFUN"} -> "none"
      [] OTHER -> modem

\* The reply, read after the lines that came before it: OK once the modem has
\* done it; an error; or a timeout, after which the modem may have done it.  A
\* reboot takes the port with it: no command reaches the modem any more.
\* The lines the loop reads while it waits are HandleURC steps before this one.
Reply(a, c) ==
    LET rest == Tail(todo[a])
        can == /\ c = "ATD" => modem = "none"
               /\ c = "ATA" => modem = "ringing"
               /\ uac # "gone"
        after == IF c = "CFUN" THEN "gone" ELSE uac
    IN  /\ todo[Loop] = <<>> /\ urcs = <<>>
        /\ Doing(a, "at", c)
        /\ \/ /\ can
              /\ modem' = Effect(c) /\ uac' = after
              /\ todo' = [todo EXCEPT ![a] = Accepted(c) \o rest]
              /\ Race(IF c = "CFUN" /\ call.state # "idle" THEN {"late"} ELSE {})
           \/ /\ \/ UNCHANGED <<modem, uac>>
                 \/ uac # "gone" /\ modem' = Effect(c) /\ uac' = after
              /\ todo' = [todo EXCEPT ![a] = Refused(a, c) \o
                            (IF Abandons(c, rest) THEN <<>> ELSE rest)]
              /\ Race(IF modem' # modem \/ c \in {"ATH", "CFUN"} THEN {"timeout"} ELSE {})
        /\ owner' = IF c \in {"ATD", "ATA"} /\ modem' # modem THEN a ELSE owner
        /\ UNCHANGED <<urcs, call, opMu, gatewayVars, sessionVars, legVars, started>>

\* handleCallURC: the loop handles a line, between transactions or within one.
HandleURC ==
    LET line == Head(urcs)
    IN  /\ urcs # <<>> /\ todo[Loop] = <<>>
        /\ urcs' = Tail(urcs)
        /\ todo' = [todo EXCEPT ![Loop] =
             CASE line = "NO CARRIER" -> <<<<"set", Idle>>>>
               [] line = "RING" /\ call.state # "idle" -> <<>>
               [] line = "RING" /\ call.state = "idle" -> <<<<"set", CallState("dialing", FALSE, FALSE)>>>>
               [] line = "CLCC" -> <<<<"set", CallState("dialing", TRUE, TRUE)>>>>
               [] line = "ACTIVE" -> <<<<"set", CallState("in_call", FALSE, FALSE)>>>>]
        /\ UNCHANGED <<modem, call, opMu, uac, gatewayVars, sessionVars, legVars, started, owner, races>>

-----------------------------------------------------------------------------
(* The SIP side.                                                           *)

\* An INVITE arrives at the gateway, which listens until its Close is through;
\* ResolveModem refuses it when the audio device is not ready.
OnInvite(i) ==
    /\ ofGw[i] = None
    /\ (up \/ todo["sync"] # <<>>) /\ uac = "ready"
    /\ Started
    /\ EnsureSession
    /\ ofGw' = [ofGw EXCEPT ![i] = gw]
    /\ ofSession' = [ofSession EXCEPT ![i] = Ensured]
    /\ todo' = [todo EXCEPT ![i] = <<<<"claim", i>>>>]
    /\ UNCHANGED <<workerVars, gw, up, active, invite, sipCall, stuck, legVars, owner, races>>

\* onInvite, startModemIncomingInvite and DialSIP take the place of the
\* session's call, or are refused it: a leg of the gateway is then closed,
\* with all that goes with its end; and so is that of an INVITE for which no
\* RTP port can be opened.  DialSIP, when it finds that the line has no gateway,
\* returns with sipMu held.
ClaimSipCall(a, l) ==
    /\ Doing(a, "claim", l) /\ ofSession[l] \notin stuck
    /\ \/ /\ sipCall[ofSession[l]] # None \/ l \in Invites
          /\ Then(a, IF l \in Dials THEN <<>> ELSE <<<<"close", l>>>>)
          /\ Race(IF l \in Dials THEN {} ELSE {"busy"})
          /\ UNCHANGED <<sipCall, stuck>>
       \/ /\ sipCall[ofSession[l]] = None /\ l \in Dials /\ ~up
          /\ stuck' = stuck \cup {ofSession[l]}
          /\ Then(a, <<>>)
          /\ UNCHANGED <<sipCall, races>>
       \/ /\ sipCall[ofSession[l]] = None /\ (l \in Dials => up)
          /\ sipCall' = [sipCall EXCEPT ![ofSession[l]] = l]
          /\ Then(a, <<<<IF l \in Dials THEN "wait" ELSE "claimLine", l>>>>)
          /\ UNCHANGED <<stuck, races>>
    /\ UNCHANGED <<workerVars, gatewayVars, session, sessions, ofSession, legVars, started, owner>>

\* ... then the place of the active leg.  An INVITE goes on to dial the modem;
\* the goroutine of a ring starts and waits for the SIP phone.
ClaimLine(a, l) ==
    LET g == ofGw[l]
    IN  /\ Doing(a, "claimLine", l)
        /\ IF active[g] # None
           THEN /\ Then(a, (IF l \in Rings THEN <<<<"clearSip", l>>>> ELSE <<>>)
                             \o <<<<"close", l>>>>)
                /\ Race({"busy"})
                /\ UNCHANGED <<active, invite>>
           ELSE /\ active' = [active EXCEPT ![g] = l]
                /\ IF l \in Rings
                   THEN /\ invite' = [invite EXCEPT ![l] = "armed"]
                        /\ todo' = [todo EXCEPT ![a] = Tail(@), ![l] = <<<<"wait", l>>>>]
                   ELSE /\ Then(a, <<<<"dial", None>>, <<"respond", l>>>>)
                        /\ UNCHANGED invite
                /\ UNCHANGED races
        /\ UNCHANGED <<workerVars, gw, up, ofGw, sessionVars, legVars, started, owner>>

\* The end of onInvite: the 200 with the SDP is sent, or cannot be.
RespondSDP(a, l) ==
    /\ Doing(a, "respond", l)
    /\ Then(a, <<>>) \/ Then(a, <<<<"close", l>>>>)
    /\ UNCHANGED <<workerVars, gatewayVars, sessionVars, legVars, started, owner, races>>

\* dialTarget: the SIP phone answers, perhaps just when the ring is cancelled,
\* and a ring answers the modem; or it does not, and the INVITE runs out of
\* time or is cancelled.
WaitAnswer(a, l) ==
    /\ Doing(a, "wait", l)
    /\ \/ /\ IF l \in Rings /\ active[ofGw[l]] = l
             THEN invite' = [invite EXCEPT ![l] = "none"]
             ELSE UNCHANGED invite
          /\ Then(a, IF l \in Rings THEN <<<<"answer", None>>>> ELSE <<>>)
          /\ Race(IF invite[l] = "cancelled" THEN {"early"} ELSE {})
       \/ Then(a, <<<<"close", l>>>>) /\ UNCHANGED <<invite, races>>
    /\ UNCHANGED <<workerVars, gw, up, active, ofGw, sessionVars, legVars, started, owner>>

\* activeByRequest: the request belongs to the active leg, once it has a dialog.
ActiveByRequest(l) == active[gw] = l /\ (l \in Rings => invite[l] = "none")

\* A BYE for the active leg of the gateway, or for a call of DialSIP.
OnBye(l) ==
    /\ todo["bye"] = <<>>
    /\ \/ l \notin Dials /\ ActiveByRequest(l)
       \/ l \in Dials /\ ofSession[l] # None /\ todo[l] = <<>>
    /\ closing[l] = "open"
    /\ todo' = [todo EXCEPT !["bye"] = <<<<"close", l>>>>]
    /\ UNCHANGED <<workerVars, gatewayVars, sessionVars, legVars, started, owner, races>>

\* Close of a gateway: its active leg is closed.
GatewayClose == IF active[gw] = None THEN <<>> ELSE <<<<"close", active[gw]>>>>
NewGateway == <<<<"newGateway", None>>>>

\* SyncSIPInbound, StopSIPInboundLine or PruneSIPInboundLines: the gateway is
\* taken out of the map and closed.
SyncSIPInbound ==
    /\ todo["sync"] = <<>>
    /\ Started
    /\ up' = FALSE
    /\ IF up
       THEN /\ active' = [active EXCEPT ![gw] = None]
            /\ todo' = [todo EXCEPT !["sync"] = GatewayClose \o NewGateway]
       ELSE todo' = [todo EXCEPT !["sync"] = NewGateway] /\ UNCHANGED active
    /\ UNCHANGED <<workerVars, gw, invite, ofGw, sessionVars, legVars, owner, races>>

\* Only then is a new one made, if the line is to have one and it can listen.
NewSIPInboundGateway ==
    /\ Doing("sync", "newGateway", None)
    /\ Then("sync", <<>>)
    /\ \/ uac = "ready" /\ gw < MaxGateways /\ gw' = gw + 1 /\ up' = TRUE
       \/ UNCHANGED <<gw, up>>
    /\ UNCHANGED <<workerVars, active, invite, ofGw, sessionVars, legVars, started, owner, races>>

-----------------------------------------------------------------------------
(* The requests of the API.                                                *)

Request(steps) ==
    /\ todo["web"] = <<>>
    /\ Started
    /\ todo' = [todo EXCEPT !["web"] = steps]
    /\ UNCHANGED <<workerVars, gatewayVars, legVars, owner, races>>

\* POST call/dial of the browser; without audio the session is closed again.
WebDial ==
    /\ uac = "ready"
    /\ \E op \in {"dial", "closeSession"} : Request(<<<<op, None>>>>)
    /\ EnsureSession
    /\ UNCHANGED <<sipCall, stuck, ofSession>>

HasActiveSIPCall == session # None /\ sipCall[session] # None

\* POST call/hangup: the SIP call of the session or the modem, as the request
\* says; if it does not, the SIP call if there is one.
WebHangup ==
    /\ \E via \in {"", "sip", "modem"} :
         /\ via = "" => session \notin stuck
         /\ IF via = "sip" \/ (via = "" /\ HasActiveSIPCall)
            THEN up /\ Request(<<<<"hangupSip", None>>>>)
            ELSE Request(<<<<"hangup", None>>, <<"closeSession", None>>>>)
    /\ UNCHANGED sessionVars

\* POST reboot: AT+CFUN=1,1, after the call was declared idle and the audio
\* device not ready.
WebReboot ==
    /\ Request(<<<<"closeSession", None>>, <<"reboot", None>>, <<"unready", None>>,
                 <<"at", "CFUN">>>>)
    /\ UNCHANGED sessionVars

Reboot ==
    /\ Doing("web", "reboot", None)
    /\ Then("web", <<<<"set", [call EXCEPT !.state = "idle"]>>>>)
    /\ UNCHANGED <<workerVars, gatewayVars, sessionVars, legVars, started, owner, races>>

SetUACReady ==
    /\ Doing("web", "unready", None)
    /\ Then("web", <<>>)
    /\ uac' = IF uac = "gone" THEN "gone" ELSE "unready"
    /\ UNCHANGED <<modem, urcs, call, opMu, gatewayVars, sessionVars, legVars, started, owner, races>>

\* POST call/dial with via = sip: DialSIP.
DialSIP(d) ==
    /\ ofSession[d] = None
    /\ uac = "ready" /\ up
    /\ Started
    /\ EnsureSession
    /\ ofSession' = [ofSession EXCEPT ![d] = Ensured]
    /\ todo' = [todo EXCEPT ![d] = <<<<"claim", d>>>>]
    /\ UNCHANGED <<workerVars, gatewayVars, sipCall, stuck, legVars, owner, races>>

\* HangupSIP reads the session's call again.
HangupSIP ==
    LET l == IF session = None THEN None ELSE sipCall[session]
    IN  /\ Doing("web", "hangupSip", None) /\ session \notin stuck
        /\ Then("web", IF l = None THEN <<>> ELSE <<<<"close", l>>>>)
        /\ UNCHANGED <<workerVars, gatewayVars, sessionVars, legVars, started, owner, races>>

\* CloseSession takes the session out of the map, closeSIP its call; it waits for
\* good for a sipMu that is never released.
CloseSession(a) ==
    /\ Doing(a, "closeSession", None)
    /\ session' = None
    /\ IF session \in stuck THEN Then(a, <<<<"locked", None>>>>) /\ UNCHANGED sipCall
       ELSE IF session = None \/ sipCall[session] = None
       THEN Then(a, <<>>) /\ UNCHANGED sipCall
       ELSE /\ Then(a, <<<<"close", sipCall[session]>>>>)
            /\ sipCall' = [sipCall EXCEPT ![session] = None]
    /\ UNCHANGED <<workerVars, gatewayVars, sessions, stuck, ofSession, legVars, started, owner, races>>

-----------------------------------------------------------------------------
\* The next step of goroutine a.
Step(a) ==
    \/ Dial(a) \/ Answer(a) \/ Hangup(a) \/ Unlock(a) \/ CloseSession(a)
    \/ EndSessionCallFromModem(a)
    \/ \E l \in Legs :
         \/ EndLegFromModem(a, l) \/ Close(a, l) \/ HandleLegEnded(a, l)
         \/ ClearSipCall(a, l) \/ Closed(a, l) \/ ClaimSipCall(a, l)
         \/ ClaimLine(a, l) \/ RespondSDP(a, l) \/ WaitAnswer(a, l)
    \/ /\ todo[a] # <<>>
       /\ \/ SetCallState(a, Head(todo[a])[2]) \/ SyncModemState(a, Head(todo[a])[2])

Network ==
    \/ RemoteAnswers \/ RemoteRings \/ RemoteEnds
    \/ \E i \in Invites : OnInvite(i)
    \/ \E l \in Legs : OnBye(l)

Api ==
    \/ WebDial \/ WebHangup \/ WebReboot \/ Reboot \/ SetUACReady \/ HangupSIP
    \/ \E d \in Dials : DialSIP(d)

Next ==
    \/ Network \/ Api \/ SyncSIPInbound \/ NewSIPInboundGateway \/ HandleURC
    \/ \E a \in Actors : Step(a) \/ \E c \in Commands : Reply(a, c)

Spec == Init /\ [][Next]_vars

-----------------------------------------------------------------------------
(* Properties.  They hold for a line as long as certain races did not      *)
(* happen; races records them:                                             *)
(*   "early":   a leg was closed or cancelled while its handler was still  *)
(*              at work, and went on                                       *)
(*   "gap":     the modem ended a call that the session has and the        *)
(*              gateway has not, or not yet                                *)
(*   "busy":    a leg was refused the line and closed                      *)
(*   "late":    a call was declared on after its end had been handled, or  *)
(*              its end reported after it                                  *)
(*   "timeout": a command was carried out and reported as failed, or the   *)
(*              modem would not hang up                                    *)

Unless(R) == races \cap R # {}

\* Type invariant: the worker's call snapshot, the gateway's active leg, the
\* sessions of the call manager and the step every goroutine has reached.
TypeOK ==
    /\ modem \in {"none", "calling", "ringing", "talking"}
    /\ \A i \in 1..Len(urcs) : urcs[i] \in {"RING", "CLCC", "ACTIVE", "NO CARRIER"}
    /\ call.state \in {"idle", "dialing", "in_call"}
    /\ opMu \in Actors \cup {None}
    /\ uac \in {"ready", "unready", "gone"}
    /\ gw \in Gateways /\ up \in BOOLEAN
    /\ \A g \in Gateways : active[g] \in {l \in Legs : ofGw[l] = g} \cup {None}
    /\ session \in Sessions \cup {None} /\ sessions \in 0..MaxSessions
    /\ sipCall \in [Sessions -> Legs \cup {None}] /\ stuck \subseteq Sessions \cup {None}
    /\ closing \in [Legs -> {"open", "running", "done"}]
    /\ byModem \subseteq Legs
    /\ invite \in [Legs -> {"none", "armed", "cancelled"}]
    /\ ofGw \in [Legs -> Gateways \cup {None}]
    /\ ofSession \in [Legs -> Sessions \cup {None}]
    /\ started \in 0..MaxStarted /\ owner \in Actors \cup {None}
    /\ races \subseteq {"early", "gap", "busy", "late", "timeout"}

\* Goroutine a needs the serial loop before it has done its step of this index.
NeedsLoop(a, n) == \E i \in 1..n : todo[a][i][1] \in {"hangup", "at", "dial", "answer"}
NeedsOp(a, n) == \E i \in 1..n : todo[a][i][1] \in {"hangup", "dial", "answer"}

\* The serial loop, which runs the listeners of what the modem says, never
\* waits for itself: not in a transaction of its own, and not for a goroutine
\* that closes a leg and has still to hang up the modem.  Nor does a goroutine
\* that holds callOpMu come to lock it again.
LoopNeverWaits ==
    (\/ NeedsLoop(Loop, Len(todo[Loop]))
     \/ \E a \in Actors : opMu = a /\ \E n \in 1..Len(todo[a]) :
          todo[a][n] = <<"unlock", None>> /\ NeedsOp(a, n)
     \/ \E l \in Legs, a \in Actors :
          /\ Doing(Loop, "close", l)
          /\ \E n \in 1..Len(todo[a]) : todo[a][n] = <<"closed", l>> /\ NeedsLoop(a, n))
    => Unless({"early", "gap", "busy"})

\* Nobody is at work, and nothing is left to read.
Quiet == (\A a \in Actors : todo[a] = <<>>) /\ urcs = <<>>

\* The leg that has a gateway's line is its own, and a closed leg does not keep
\* the line busy, even when the gateway was replaced meanwhile.
ActiveLegIsOpen ==
    \A g \in Gateways : active[g] # None =>
        /\ ofGw[active[g]] = g
        /\ closing[active[g]] # "done" \/ Unless({"early"})

\* A call of the modem does not outlive the leg that placed or answered it.
ModemReleased ==
    Quiet /\ modem \in {"calling", "talking"} /\ owner \in Legs =>
        closing[owner] = "open" \/ Unless({"early", "timeout"})

\* When all is quiet the worker has a call in its state if the modem has one
\* in progress, and none if it has none.  (A modem that rings says so again
\* every few seconds.)
StateFollowsModem ==
    Quiet => \/ modem = "ringing"
             \/ call.state = "idle" <=> modem = "none"
             \/ Unless({"late", "timeout"})

\* An open leg has its call: the end of the call, wherever it comes from, ends
\* the leg that has the line.
LegHasCall ==
    Quiet /\ up /\ active[gw] # None =>
        modem # "none" \/ Unless({"early", "late", "timeout"})
=============================================================================
