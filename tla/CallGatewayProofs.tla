------------------------- MODULE CallGatewayProofs -------------------------
(***************************************************************************)
(* Proofs about CallGateway, for any INVITEs, rings, calls of DialSIP,     *)
(* sessions and gateways: outside the named races a closed leg frees its   *)
(* line, the serial loop never comes to wait for itself, the worker's call *)
(* state follows the modem, the end of the call ends the leg, and the end  *)
(* of the leg the call.                                                    *)
(*                                                                         *)
(* Three invariants, each inductive with those before it: IInv, of the     *)
(* stacks of the goroutines and the closing of legs; WInv, of the worker's *)
(* call state and the modem; GInv, of the legs and the modem's call.       *)
(***************************************************************************)
EXTENDS CallGateway, TLAPS

CallStates == [state : {"idle", "dialing", "in_call"}, incoming : BOOLEAN, ringing : BOOLEAN]
Lines == {"RING", "CLCC", "ACTIVE", "NO CARRIER"}

\* The legs of the gateway.
Lined == Invites \cup Rings

\* The steps of goroutine a: each handles its own leg, whoever hears the modem
\* ring claims the line for the ring, and anybody may end a leg.
StepsOf(a) ==
    ({"set", "sync"} \X CallStates)
    \cup ({"endLeg", "close", "legEnded", "clearSip", "closed"} \X Legs)
    \cup ({"claim", "claimLine"} \X (Rings \cup ({a} \cap Invites)))
    \cup ({"claim"} \X ({a} \cap Dials))
    \cup ({"wait"} \X ({a} \cap (Rings \cup Dials)))
    \cup ({"respond"} \X ({a} \cap Invites))
    \cup ({"hangup", "unlock", "endSession"} \X {None})
    \cup ({"at"} \X {"ATH", "QPCMV"})
    \cup {t \in ({"dial", "answer"} \X {None}) \cup ({"at"} \X {"ATD", "ATA"}) :
            a \in Legs \cup {"web"}}
    \cup {t \in ({"closeSession", "hangupSip", "reboot", "unready", "locked"} \X {None})
                 \cup ({"at"} \X {"CFUN"}) :
            a = "web"}
    \cup {t \in {"newGateway"} \X {None} : a = "sync"}

Shape ==
    /\ call \in CallStates
    /\ urcs \in Seq(Lines)
    /\ active = [g \in Gateways |-> active[g]]
    /\ todo = [a \in Actors |-> todo[a]]
    /\ \A a \in Actors : todo[a] \in Seq(StepsOf(a))

Typed == TypeOK /\ Shape

\* What has to do with the end of leg l, and with its beginning.
Ends(l) == {"endLeg", "close", "legEnded", "clearSip", "closed", "wait", "respond"} \X {l}
Begins(l) == {"claim", "claimLine"} \X {l}

\* Nothing but the claim of l knows of l yet.
Untouched(l) ==
    /\ closing[l] = "open"
    /\ \A g \in Gateways : active[g] # l
    /\ \A s \in Sessions : sipCall[s] # l
    /\ \A a \in Actors : \A i \in 1..Len(todo[a]) : todo[a][i] \notin Ends(l)

\* A claim is the first thing its goroutine does, is made once, and before the
\* goroutine of a ring starts.
ClaimsFirst ==
    \A l \in Lined, a \in Actors : \A i \in 1..Len(todo[a]) :
        todo[a][i] \in Begins(l) =>
            /\ i = 1
            /\ ofGw[l] # None
            /\ l \in Rings => a # l /\ todo[l] = <<>>
            /\ \A b \in Actors : \A j \in 1..Len(todo[b]) : todo[b][j] \in Begins(l) => a = b

Waiting(l) == ofGw[l] = None \/ \E a \in Actors : Doing(a, "claim", l)

Fresh ==
    \A l \in Lined : /\ Waiting(l) => Untouched(l)
                     /\ ofGw[l] = None => todo[l] = <<>>

Early == Unless({"early"})

\* closeOnce of a leg: it is taken before onEnded runs, and not before the leg
\* has its line; onEnded frees the line.
CloseOnce ==
    \A l \in Legs, a \in Actors : \A i \in 1..Len(todo[a]) :
        /\ todo[a][i] \in {"legEnded", "closed"} \X {l} => closing[l] # "open"
        /\ todo[a][i] = <<"claimLine", l>> => closing[l] = "open" \/ Early
        /\ todo[a][i] = <<"closed", l>> => (\A g \in Gateways : active[g] # l) \/ Early
        /\ todo[a][i] = <<"endLeg", l>> => ofGw[l] # None

\* A step that does not lead to the worker's Dial, Answer or Hangup: what it
\* closes was ended by the modem, or is a call of DialSIP.
SilentFor(ended, t) ==
    /\ t[1] \notin {"hangup", "at", "dial", "answer", "wait", "respond",
                    "closeSession", "hangupSip", "reboot"}
    /\ t[1] \in {"close", "legEnded"} => t[2] \in ended \cup Dials
    /\ t[1] \in {"claim", "claimLine"} => t[2] \in Rings

Silent(t) == SilentFor(byModem, t)

Raced == Unless({"early", "gap", "busy"})
UnlockStep == <<"unlock", None>>

\* The loop, and whoever has callOpMu to release, does nothing else.
LoopSilent == \A i \in 1..Len(todo[Loop]) : Silent(todo[Loop][i]) \/ Raced

LockedSilent ==
    \A a \in Actors : \A n \in 1..Len(todo[a]) : \A i \in 1..n :
        todo[a][n] = UnlockStep => Silent(todo[a][i]) \/ Raced

\* The end of a leg that the modem ended leaves the modem alone.
EndsSilently ==
    \A l \in byModem \cup Dials, a \in Actors : \A n \in 1..Len(todo[a]) : \A i \in 1..n :
        todo[a][n] = <<"closed", l>> => i = n \/ todo[a][i] = <<"clearSip", l>> \/ Early

Order == ClaimsFirst /\ Fresh /\ CloseOnce /\ ActiveLegIsOpen
         /\ LoopSilent /\ LockedSilent /\ EndsSilently

IInv == Typed /\ Order

-----------------------------------------------------------------------------
(* Stacks.                                                                 *)

\* The goroutine has done its first step, put new ones in its place and kept
\* some of the others, in their order.
Moves(a, steps) ==
    \A i \in 1..Len(todo'[a]) :
        \/ i \in 1..Len(steps) /\ todo'[a][i] = steps[i]
        \/ \E k \in 2..Len(todo[a]) :
              i = Len(steps) + k - 1 /\ todo'[a][i] = todo[a][k]

Moved(a, steps) ==
    /\ Moves(a, steps)
    /\ todo' = [b \in Actors |-> todo'[b]]
    /\ todo'[a] \in Seq(StepsOf(a))
    /\ \A b \in Actors : b # a => todo'[b] = todo[b]

LEMMA StackFacts ==
  ASSUME Typed, NEW a \in Actors, todo[a] # <<>>
  PROVE  /\ todo[a] \in Seq(StepsOf(a)) /\ Len(todo[a]) \in Nat /\ 1 \in 1..Len(todo[a])
         /\ Head(todo[a]) = todo[a][1] /\ todo[a][1] \in StepsOf(a)
         /\ Tail(todo[a]) \in Seq(StepsOf(a))
  BY DEF Typed, Shape

LEMMA ThenMoves ==
  ASSUME Typed, NEW a \in Actors, todo[a] # <<>>, NEW steps \in Seq(StepsOf(a)), Then(a, steps)
  PROVE  Moved(a, steps)
  <1> DEFINE S == StepsOf(a)  t == todo[a]
  <1>1. t \in Seq(S) /\ t # <<>> /\ todo' = [todo EXCEPT ![a] = steps \o Tail(t)]
    BY StackFacts DEF Then
  <1>2. todo = [b \in Actors |-> todo[b]] BY DEF Typed, Shape
  <1>3. todo'[a] = steps \o Tail(t) /\ \A b \in Actors : b # a => todo'[b] = todo[b]
    BY <1>1, <1>2
  <1>4. todo' = [b \in Actors |-> todo'[b]] BY <1>1, <1>2
  <1>. HIDE DEF S
  <1>5. /\ Tail(t) \in Seq(S) /\ Len(t) \in Nat /\ Len(Tail(t)) = Len(t) - 1
        /\ \A k \in 1..Len(Tail(t)) : Tail(t)[k] = t[k + 1]
    BY <1>1
  <1>6. steps \in Seq(S) BY DEF S
  <1>7. /\ steps \o Tail(t) \in Seq(S) /\ Len(steps) \in Nat
        /\ Len(steps \o Tail(t)) = Len(steps) + Len(Tail(t))
        /\ \A i \in 1..Len(steps) : (steps \o Tail(t))[i] = steps[i]
        /\ \A k \in 1..Len(Tail(t)) : (steps \o Tail(t))[Len(steps) + k] = Tail(t)[k]
    BY <1>5, <1>6
  <1>8. Moves(a, steps)
    <2> SUFFICES ASSUME NEW i \in 1..Len(todo'[a]), i \notin 1..Len(steps)
                 PROVE  \E k \in 2..Len(t) : i = Len(steps) + k - 1 /\ todo'[a][i] = t[k]
      BY <1>3, <1>7 DEF Moves
    <2>0. i - Len(steps) \in 1..Len(Tail(t)) /\ i = Len(steps) + (i - Len(steps))
      BY <1>3, <1>5, <1>7
    <2>1. PICK k \in 1..Len(Tail(t)) : i = Len(steps) + k BY <2>0
    <2>2. todo'[a][i] = t[k + 1] BY <1>3, <1>5, <1>7, <2>1
    <2>3. k + 1 \in 2..Len(t) /\ i = Len(steps) + (k + 1) - 1 BY <1>5, <1>7, <2>1
    <2>. QED BY <2>2, <2>3
  <1>. QED BY <1>3, <1>4, <1>7, <1>8 DEF Moved, S

\* A goroutine starts, or drops all it had to do.
LEMMA StartMoves ==
  ASSUME Typed, NEW a \in Actors, NEW steps \in Seq(StepsOf(a)),
         todo' = [todo EXCEPT ![a] = steps]
  PROVE  Moved(a, steps)
  <1>1. todo = [b \in Actors |-> todo[b]] BY DEF Typed, Shape
  <1>2. todo'[a] = steps /\ (\A b \in Actors : b # a => todo'[b] = todo[b])
        /\ todo' = [b \in Actors |-> todo'[b]]
    BY <1>1
  <1>. QED BY <1>2 DEF Moved, Moves

\* What a goroutine may be about to do.
LEMMA StepFacts ==
  ASSUME Typed, NEW a \in Actors, NEW op, NEW x, Doing(a, op, x)
  PROVE  /\ todo[a] # <<>> /\ todo[a][1] = <<op, x>> /\ 1 \in 1..Len(todo[a])
         /\ op \in {"set", "sync"} => x \in CallStates
         /\ op \in {"endLeg", "close", "legEnded", "clearSip", "closed"} => x \in Legs
         /\ op = "claim" => x \in Rings \/ (x = a /\ x \in Legs)
         /\ op = "claimLine" => x \in Rings \/ (x = a /\ x \in Invites)
         /\ op = "wait" => x = a /\ x \in Rings \cup Dials
         /\ op = "respond" => x = a /\ x \in Invites
         /\ op \in {"dial", "answer"} => a \in Legs \cup {"web"}
         /\ op = "at" /\ x \in {"ATD", "ATA"} => a \in Legs \cup {"web"}
         /\ op \in {"closeSession", "hangupSip", "reboot"} => a = "web"
         /\ op = "at" => x \in Commands /\ (x = "CFUN" => a = "web")
  <1>1. /\ todo[a] # <<>> /\ todo[a][1] = <<op, x>> /\ 1 \in 1..Len(todo[a])
        /\ <<op, x>> \in StepsOf(a)
    BY StackFacts DEF Doing
  <1>. QED BY <1>1 DEF StepsOf, Legs, Commands

-----------------------------------------------------------------------------
(* What a step of one goroutine keeps.                                     *)

LEMMA RacesKept ==
  ASSUME races \subseteq races'
  PROVE  (Early => Early') /\ (Raced => Raced')
  BY DEF Early, Raced, Unless

\* The step makes no claim, and touches no leg that is not in use.
LEMMA ClaimsKept ==
  ASSUME IInv, NEW a \in Actors, NEW steps, Len(steps) \in Nat, Moved(a, steps), UNCHANGED ofGw,
         a \in Lined => todo[a] # <<>>,
         \A l \in Lined : \A i \in 1..Len(steps) : steps[i] \notin Begins(l),
         \A l \in Lined : Untouched(l) /\ l # a
                          /\ (todo[a] # <<>> => todo[a][1] \notin Begins(l)) =>
             /\ \A i \in 1..Len(steps) : steps[i] \notin Ends(l)
             /\ closing'[l] = "open"
             /\ \A g \in Gateways : active'[g] # l
             /\ \A s \in Sessions : sipCall'[s] # l
  PROVE  ClaimsFirst' /\ Fresh'
  <1> USE DEF IInv, Order
  <1>1. \A l \in Lined, b \in Actors : \A i \in 1..Len(todo'[b]) :
           todo'[b][i] \in Begins(l) => b # a /\ todo'[b] = todo[b]
    <2> SUFFICES ASSUME NEW l \in Lined, NEW i \in 1..Len(todo'[a]), todo'[a][i] \in Begins(l)
                 PROVE  FALSE
      BY DEF Moved
    <2>1. PICK k \in 2..Len(todo[a]) : todo'[a][i] = todo[a][k] BY DEF Moved, Moves
    <2>2. todo[a] \in Seq(StepsOf(a)) BY DEF Typed, Shape
    <2>3. k \in 1..Len(todo[a]) /\ k # 1 BY <2>2
    <2>. QED BY <2>1, <2>3 DEF ClaimsFirst
  <1>2. ClaimsFirst'
    <2> SUFFICES ASSUME NEW l \in Lined, NEW b \in Actors, NEW i \in 1..Len(todo'[b]),
                        todo'[b][i] \in Begins(l)
                 PROVE  /\ i = 1
                        /\ ofGw'[l] # None
                        /\ l \in Rings => b # l /\ todo'[l] = <<>>
                        /\ \A c \in Actors : \A j \in 1..Len(todo'[c]) :
                              todo'[c][j] \in Begins(l) => b = c
      BY DEF ClaimsFirst, Begins
    <2>1. b # a /\ i \in 1..Len(todo[b]) /\ todo[b][i] \in Begins(l) BY <1>1
    <2>2. /\ i = 1 /\ ofGw[l] # None
          /\ l \in Rings => b # l /\ todo[l] = <<>>
          /\ \A c \in Actors : \A j \in 1..Len(todo[c]) : todo[c][j] \in Begins(l) => b = c
      BY <2>1 DEF ClaimsFirst
    <2>3. l \in Rings => todo'[l] = <<>>
      BY <2>2 DEF Moved, Actors, Legs
    <2>4. \A c \in Actors : \A j \in 1..Len(todo'[c]) : todo'[c][j] \in Begins(l) => b = c
      BY <1>1, <2>2
    <2>. QED BY <2>2, <2>3, <2>4
  <1>3. ASSUME NEW l \in Lined, ofGw[l] = None
        PROVE  l # a /\ todo'[l] = <<>> /\ (todo[a] # <<>> => todo[a][1] \notin Begins(l))
    <2>1. todo[l] = <<>> /\ l \in Actors BY <1>3 DEF Fresh, Actors, Legs, Lined
    <2>2. l # a BY <2>1
    <2>3. todo[a] # <<>> => 1 \in 1..Len(todo[a]) BY StackFacts
    <2>. QED BY <1>3, <2>1, <2>2, <2>3 DEF Moved, ClaimsFirst
  <1>4. ASSUME NEW l \in Lined, NEW b \in Actors, Doing(b, "claim", l)'
        PROVE  /\ l # a /\ Doing(b, "claim", l)
               /\ todo[a] # <<>> => todo[a][1] \notin Begins(l)
    <2>1. todo'[b] # <<>> /\ Head(todo'[b]) = <<"claim", l>> BY <1>4 DEF Doing
    <2>2. todo'[b] \in Seq(StepsOf(b)) BY DEF Moved, Typed, Shape
    <2>3. 1 \in 1..Len(todo'[b]) /\ todo'[b][1] = <<"claim", l>> BY <2>1, <2>2
    <2>4. <<"claim", l>> \in Begins(l) BY DEF Begins
    <2>5. b # a /\ todo'[b] = todo[b] BY <1>1, <2>3, <2>4
    <2>6. Doing(b, "claim", l) BY <2>1, <2>5 DEF Doing
    <2>7. /\ l \in Rings => todo[l] = <<>>
          /\ \A j \in 1..Len(todo[a]) : todo[a][j] \in Begins(l) => b = a
      BY <2>3, <2>4, <2>5 DEF ClaimsFirst
    <2>8. l \in Invites => l = b
      BY <2>6, StepFacts, NamesAssumption
    <2>9. l # a BY <2>5, <2>7, <2>8 DEF Lined
    <2>10. todo[a] # <<>> => 1 \in 1..Len(todo[a]) BY StackFacts
    <2>. QED BY <2>5, <2>6, <2>7, <2>9, <2>10
  <1>5. ASSUME NEW l \in Lined, Waiting(l)' PROVE Untouched(l)'
    <2>1. Untouched(l) /\ l # a /\ (todo[a] # <<>> => todo[a][1] \notin Begins(l))
      BY <1>3, <1>4, <1>5 DEF Waiting, Fresh
    <2>2. /\ \A i \in 1..Len(steps) : steps[i] \notin Ends(l)
          /\ closing'[l] = "open"
          /\ \A g \in Gateways : active'[g] # l
          /\ \A s \in Sessions : sipCall'[s] # l
      BY <2>1
    <2>3. \A b \in Actors : \A i \in 1..Len(todo'[b]) : todo'[b][i] \notin Ends(l)
      <3> SUFFICES ASSUME NEW b \in Actors, NEW i \in 1..Len(todo'[b])
                   PROVE  todo'[b][i] \notin Ends(l)
        OBVIOUS
      <3>1. CASE b # a BY <2>1, <3>1 DEF Moved, Untouched
      <3>2. CASE b = a
        <4>1. todo[a] \in Seq(StepsOf(a)) BY DEF Typed, Shape
        <4>2. \A k \in 2..Len(todo[a]) : k \in 1..Len(todo[a]) BY <4>1
        <4>. QED BY <2>1, <2>2, <3>2, <4>2 DEF Moved, Moves, Untouched
      <3>. QED BY <3>1, <3>2
    <2>. QED BY <2>2, <2>3 DEF Untouched, Ends
  <1>6. Fresh' BY <1>3, <1>5 DEF Fresh
  <1>. QED BY <1>2, <1>6

\* The step may take closeOnce of a leg that is not to claim its line, or have a
\* leg that is not closed take its line.
ClosesInOrder ==
    /\ \A l \in Legs : ofGw[l] # None => ofGw'[l] = ofGw[l]
    /\ \A l \in Legs : closing[l] # "open" => closing'[l] # "open"
    /\ \A l \in Legs : closing[l] = "open" /\ closing'[l] # "open" =>
          \/ Early'
          \/ \A b \in Actors : \A i \in 1..Len(todo[b]) : todo[b][i] # <<"claimLine", l>>

LinesInOrder ==
    \A g \in Gateways :
        /\ active'[g] = active[g] /\ active[g] # None /\ closing'[active[g]] = "done" =>
              closing[active[g]] = "done" \/ Early'
        /\ active'[g] \notin {active[g], None} =>
              /\ active'[g] \in Legs /\ ofGw'[active'[g]] = g
              /\ Early' \/ (closing[active'[g]] = "open" /\ closing'[active'[g]] = "open")

StepsInOrder(steps) ==
    \A l \in Legs : \A i \in 1..Len(steps) :
        /\ steps[i] \in {"legEnded", "closed"} \X {l} => closing'[l] # "open"
        /\ steps[i] = <<"claimLine", l>> => closing'[l] = "open"
        /\ steps[i] = <<"closed", l>> => \A g \in Gateways : active'[g] # l
        /\ steps[i] = <<"endLeg", l>> => ofGw'[l] # None

LEMMA CloseMoves ==
  ASSUME IInv, NEW a \in Actors, NEW steps, Moved(a, steps), races \subseteq races',
         ClosesInOrder, LinesInOrder, StepsInOrder(steps)
  PROVE  CloseOnce' /\ ActiveLegIsOpen'
  <1> USE DEF IInv, Order, ClosesInOrder, LinesInOrder, StepsInOrder
  <1>1. (Early => Early') /\ None \notin Legs
    BY RacesKept, NamesAssumption DEF Actors
  <1>2. CloseOnce'
    <2> SUFFICES ASSUME NEW l \in Legs, NEW b \in Actors, NEW i \in 1..Len(todo'[b])
                 PROVE  /\ todo'[b][i] \in {"legEnded", "closed"} \X {l} => closing'[l] # "open"
                        /\ todo'[b][i] = <<"claimLine", l>> => closing'[l] = "open" \/ Early'
                        /\ todo'[b][i] = <<"closed", l>> =>
                             (\A g \in Gateways : active'[g] # l) \/ Early'
                        /\ todo'[b][i] = <<"endLeg", l>> => ofGw'[l] # None
      BY DEF CloseOnce
    <2>1. ASSUME NEW k \in 1..Len(todo[b]), todo'[b][i] = todo[b][k]
          PROVE  /\ todo'[b][i] \in {"legEnded", "closed"} \X {l} => closing'[l] # "open"
                 /\ todo'[b][i] = <<"claimLine", l>> => closing'[l] = "open" \/ Early'
                 /\ todo'[b][i] = <<"closed", l>> =>
                      (\A g \in Gateways : active'[g] # l) \/ Early'
                 /\ todo'[b][i] = <<"endLeg", l>> => ofGw'[l] # None
      <3>0. /\ todo[b][k] \in {"legEnded", "closed"} \X {l} => closing[l] # "open"
            /\ todo[b][k] = <<"claimLine", l>> => closing[l] = "open" \/ Early
            /\ todo[b][k] = <<"closed", l>> => (\A g \in Gateways : active[g] # l) \/ Early
            /\ todo[b][k] = <<"endLeg", l>> => ofGw[l] # None
        BY DEF CloseOnce
      <3>1. CASE todo[b][k] = <<"claimLine", l>>
        BY <1>1, <2>1, <3>0, <3>1
      <3>2. CASE todo[b][k] = <<"closed", l>>
        BY <1>1, <2>1, <3>0, <3>2
      <3>3. CASE todo[b][k] # <<"claimLine", l>> /\ todo[b][k] # <<"closed", l>>
        BY <2>1, <3>0, <3>3
      <3>. QED BY <3>1, <3>2, <3>3
    <2>2. CASE b = a /\ i \in 1..Len(steps) /\ todo'[b][i] = steps[i]
      BY <2>2
    <2>3. todo[a] \in Seq(StepsOf(a)) BY DEF Typed, Shape
    <2>4. \A k \in 2..Len(todo[a]) : k \in 1..Len(todo[a]) BY <2>3
    <2>. QED BY <2>1, <2>2, <2>4 DEF Moved, Moves
  <1>3. ASSUME NEW g \in Gateways, active'[g] # None
        PROVE  ofGw'[active'[g]] = g /\ (closing'[active'[g]] # "done" \/ Early')
    <2>1. CASE active'[g] = active[g]
      <3>1. active[g] \in Legs BY <1>3, <2>1 DEF Typed, TypeOK
      <3>2. ofGw[active[g]] = g /\ (closing[active[g]] # "done" \/ Early)
        BY <1>3, <2>1 DEF ActiveLegIsOpen, Early
      <3>3. ofGw'[active[g]] = g BY <3>1, <3>2, NamesAssumption
      <3>. QED BY <1>1, <1>3, <2>1, <3>2, <3>3
    <2>2. CASE active'[g] # active[g] BY <1>3, <2>2
    <2>. QED BY <2>1, <2>2
  <1>4. ActiveLegIsOpen' BY <1>3 DEF ActiveLegIsOpen, Early
  <1>. QED BY <1>2, <1>4

\* The step ends and begins no closing of a leg and takes no line.
ClosesCalmly(a, steps) ==
    /\ Moved(a, steps)
    /\ UNCHANGED closing /\ races \subseteq races'
    /\ \A l \in Legs : ofGw[l] # None => ofGw'[l] = ofGw[l]
    /\ \A g \in Gateways : active'[g] \in {active[g], None}
    /\ \A i \in 1..Len(steps) : steps[i][1] \notin {"legEnded", "closed", "claimLine"}
    /\ \A l \in Legs : \A i \in 1..Len(steps) : steps[i] = <<"endLeg", l>> => ofGw'[l] # None

LEMMA CalmlyKept ==
  ASSUME IInv, NEW a \in Actors, NEW steps, ClosesCalmly(a, steps)
  PROVE  CloseOnce' /\ ActiveLegIsOpen'
  <1>0. /\ Moved(a, steps) /\ UNCHANGED closing /\ races \subseteq races'
        /\ \A l \in Legs : ofGw[l] # None => ofGw'[l] = ofGw[l]
        /\ \A g \in Gateways : active'[g] \in {active[g], None}
        /\ \A l \in Legs : \A i \in 1..Len(steps) : steps[i] = <<"endLeg", l>> => ofGw'[l] # None
    BY DEF ClosesCalmly
  <1>1. ASSUME NEW l \in Legs, NEW i \in 1..Len(steps)
        PROVE  steps[i] \notin {"legEnded", "closed"} \X {l} /\ steps[i] # <<"claimLine", l>>
               /\ steps[i] # <<"closed", l>>
    BY DEF ClosesCalmly
  <1>2. StepsInOrder(steps) BY <1>0, <1>1 DEF StepsInOrder
  <1>3. LinesInOrder BY <1>0 DEF LinesInOrder
  <1>4. ClosesInOrder BY <1>0 DEF ClosesInOrder
  <1>. QED BY <1>0, <1>2, <1>3, <1>4, CloseMoves

LEMMA CloseKept ==
  ASSUME IInv, NEW a \in Actors, NEW steps, Moved(a, steps),
         UNCHANGED closing, races \subseteq races',
         \A l \in Legs : ofGw[l] # None => ofGw'[l] = ofGw[l],
         \A g \in Gateways : active'[g] \in {active[g], None},
         \A i \in 1..Len(steps) : steps[i][1] \notin {"legEnded", "closed", "claimLine"},
         \A l \in Legs : \A i \in 1..Len(steps) : steps[i] = <<"endLeg", l>> => ofGw'[l] # None
  PROVE  CloseOnce' /\ ActiveLegIsOpen'
  <1>1. ClosesCalmly(a, steps) BY DEF ClosesCalmly
  <1>. QED BY <1>1, CalmlyKept

Guarded(a) == a = Loop \/ \E k \in 2..Len(todo[a]) : todo[a][k] = UnlockStep

LEMMA GuardedHead ==
  ASSUME IInv, NEW a \in Actors, todo[a] # <<>>, Guarded(a)
  PROVE  Silent(todo[a][1]) \/ Raced
  <1> USE DEF IInv, Order
  <1>1. 1 \in 1..Len(todo[a]) /\ Len(todo[a]) \in Nat BY StackFacts
  <1>2. \A k \in 2..Len(todo[a]) : k \in 1..Len(todo[a]) /\ 1 \in 1..k BY <1>1
  <1>. QED BY <1>1, <1>2 DEF Guarded, LoopSilent, LockedSilent

LEMMA SilentMoves ==
  ASSUME IInv, NEW a \in Actors, NEW steps, Len(steps) \in Nat, Moved(a, steps),
         byModem \subseteq byModem', races \subseteq races',
         Guarded(a) /\ (a = Loop \/ Len(todo'[a]) # Len(steps)) =>
             Raced' \/ \A i \in 1..Len(steps) : SilentFor(byModem', steps[i]),
         \A n \in 1..Len(steps) : \A i \in 1..n :
             steps[n] = UnlockStep => SilentFor(byModem', steps[i]),
         \A l \in byModem' \cup Dials : \A n \in 1..Len(steps) : \A i \in 1..n :
             steps[n] = <<"closed", l>> => i = n \/ steps[i] = <<"clearSip", l>>,
         \A l \in byModem' \ byModem, b \in Actors : \A n \in 1..Len(todo[b]) :
             todo[b][n] = <<"closed", l>> => Early,
         todo[a] # <<>> /\ todo[a][1][1] = "clearSip"
             /\ Len(todo'[a]) # Len(steps) => Len(steps) = 0
  PROVE  LoopSilent' /\ LockedSilent' /\ EndsSilently'
  <1> USE DEF IInv, Order
  <1>1. (Early => Early') /\ (Raced => Raced') BY RacesKept
  <1>2. \A t : Silent(t) => SilentFor(byModem', t) BY DEF Silent, SilentFor
  <1>3. todo[a] \in Seq(StepsOf(a)) /\ Len(todo[a]) \in Nat BY DEF Typed, Shape
  <1>4. \A i \in 1..Len(todo'[a]) :
           \/ i \in 1..Len(steps) /\ todo'[a][i] = steps[i]
           \/ /\ i > Len(steps) /\ i - Len(steps) + 1 \in 2..Len(todo[a])
              /\ i - Len(steps) + 1 \in 1..Len(todo[a])
              /\ todo'[a][i] = todo[a][i - Len(steps) + 1]
    <2> SUFFICES ASSUME NEW i \in 1..Len(todo'[a]), NEW k \in 2..Len(todo[a]),
                        i = Len(steps) + k - 1, todo'[a][i] = todo[a][k]
                 PROVE  /\ i > Len(steps) /\ i - Len(steps) + 1 \in 2..Len(todo[a])
                        /\ i - Len(steps) + 1 \in 1..Len(todo[a])
                        /\ todo'[a][i] = todo[a][i - Len(steps) + 1]
      BY DEF Moved, Moves
    <2>1. k = i - Len(steps) + 1 BY <1>3
    <2>. QED BY <1>3, <2>1
  <1>5. LoopSilent'
    <2>1. CASE a # Loop BY <1>1, <1>2, <2>1 DEF LoopSilent, Moved, Actors, Silent
    <2>2. CASE a = Loop
      BY <1>1, <1>2, <1>4, <2>2 DEF LoopSilent, Guarded, Silent
    <2>. QED BY <2>1, <2>2
  <1>6. LockedSilent'
    <2> SUFFICES ASSUME NEW b \in Actors, NEW n \in 1..Len(todo'[b]), NEW i \in 1..n,
                        todo'[b][n] = UnlockStep, ~Raced'
                 PROVE  SilentFor(byModem', todo'[b][i])
      BY DEF LockedSilent, UnlockStep, Silent
    <2>1. CASE b # a BY <1>1, <1>2, <2>1 DEF LockedSilent, Moved
    <2>2. CASE b = a /\ n \in 1..Len(steps)
      <3>1. i \in 1..Len(steps) /\ todo'[a][n] = steps[n] /\ todo'[a][i] = steps[i]
        BY <1>4, <2>2
      <3>. QED BY <2>2, <3>1
    <2>3. CASE b = a /\ n \notin 1..Len(steps)
      <3>1. /\ n > Len(steps) /\ n - Len(steps) + 1 \in 2..Len(todo[a])
            /\ n - Len(steps) + 1 \in 1..Len(todo[a])
            /\ todo[a][n - Len(steps) + 1] = UnlockStep
        BY <1>4, <2>3
      <3>2. Guarded(a) /\ Len(todo'[a]) # Len(steps) BY <2>3, <3>1 DEF Guarded
      <3>3. CASE i \in 1..Len(steps)
        BY <1>4, <2>3, <3>2, <3>3
      <3>4. CASE i \notin 1..Len(steps)
        <4>1. i \in 1..Len(todo'[a]) BY <2>3
        <4>2. todo'[a][i] = todo[a][i - Len(steps) + 1] BY <1>4, <3>4, <4>1
        <4>3. i - Len(steps) + 1 \in 1..(n - Len(steps) + 1) BY <3>1, <3>4
        <4>. QED BY <1>1, <1>2, <2>3, <3>1, <4>2, <4>3 DEF LockedSilent
      <3>. QED BY <3>3, <3>4
    <2>. QED BY <2>1, <2>2, <2>3
  <1>7. EndsSilently'
    <2> SUFFICES ASSUME NEW l \in byModem' \cup Dials, NEW b \in Actors,
                        NEW n \in 1..Len(todo'[b]), NEW i \in 1..n,
                        todo'[b][n] = <<"closed", l>>, ~Early'
                 PROVE  i = n \/ todo'[b][i] = <<"clearSip", l>>
      BY DEF EndsSilently
    <2>1. CASE b # a BY <1>1, <2>1 DEF EndsSilently, Moved
    <2>3. CASE b = a /\ n \in 1..Len(steps)
      <3>1. /\ i \in 1..Len(steps) /\ todo'[a][n] = steps[n] /\ todo'[a][i] = steps[i]
        BY <1>4, <2>3
      <3>. QED BY <2>3, <3>1
    <2>2. CASE b = a /\ n \notin 1..Len(steps)
      <3>1. /\ n > Len(steps) /\ n - Len(steps) + 1 \in 2..Len(todo[a])
            /\ n - Len(steps) + 1 \in 1..Len(todo[a])
            /\ todo[a][n - Len(steps) + 1] = <<"closed", l>>
        BY <1>4, <2>2
      <3>0. l \in byModem \cup Dials BY <1>1, <3>1
      <3>2. \A k \in 1..(n - Len(steps) + 1) :
               k = n - Len(steps) + 1 \/ todo[a][k] = <<"clearSip", l>>
        BY <1>1, <3>0, <3>1 DEF EndsSilently
      <3>3. todo[a] # <<>> /\ todo[a][1] = <<"clearSip", l>> BY <1>3, <3>1, <3>2
      <3>4. Len(steps) = 0 BY <2>2, <3>1, <3>3
      <3>5. i \in 1..Len(todo'[a]) BY <2>2
      <3>6. todo'[a][i] = todo[a][i + 1] BY <1>4, <3>4, <3>5
      <3>7. i + 1 \in 1..(n - Len(steps) + 1) BY <3>1, <3>4
      <3>. QED BY <2>2, <3>2, <3>4, <3>6, <3>7
    <2>. QED BY <2>1, <2>2, <2>3
  <1>. QED BY <1>5, <1>6, <1>7

LEMMA SilentKept ==
  ASSUME IInv, NEW a \in Actors, NEW steps, Len(steps) \in Nat, Moved(a, steps),
         UNCHANGED byModem, races \subseteq races',
         Guarded(a) /\ (a = Loop \/ Len(todo'[a]) # Len(steps)) =>
             Raced' \/ \A i \in 1..Len(steps) : Silent(steps[i]),
         \A n \in 1..Len(steps) : \A i \in 1..n : steps[n] = UnlockStep => Silent(steps[i]),
         \A n \in 1..Len(steps) : steps[n][1] # "closed",
         todo[a] # <<>> /\ todo[a][1][1] = "clearSip"
             /\ Len(todo'[a]) # Len(steps) => Len(steps) = 0
  PROVE  LoopSilent' /\ LockedSilent' /\ EndsSilently'
  <1>1. \A t : Silent(t) <=> SilentFor(byModem', t) BY DEF Silent, SilentFor
  <1>2. \A n \in 1..Len(steps) : \A l : steps[n] # <<"closed", l>> OBVIOUS
  <1>. QED BY <1>1, <1>2, SilentMoves

\* A step that goroutine a may put on its stack without further ado: it makes
\* no claim, and ends a leg that is in use.
Ordinary(a, t) ==
    /\ t[1] \notin {"claimLine", "legEnded", "closed"}
    /\ \A l \in Lined : t \notin Begins(l)
    /\ \A l \in Lined : t \in Ends(l) =>
          \/ ~Untouched(l) \/ l = a
          \/ todo[a] # <<>> /\ todo[a][1] \in Begins(l)
    /\ \A l \in Legs : t = <<"endLeg", l>> => ofGw[l] # None

\* What is kept of the state but the stacks.
Steady ==
    /\ UNCHANGED <<closing, byModem, ofGw>>
    /\ races \subseteq races'
    /\ \A g \in Gateways : active'[g] \in {active[g], None}
    /\ TypeOK' /\ call' \in CallStates /\ urcs' \in Seq(Lines)
    /\ active' = [g \in Gateways |-> active'[g]]

LEMMA OrdinaryKept ==
  ASSUME IInv, NEW a \in Actors, NEW steps, Len(steps) \in Nat, Moved(a, steps), Steady,
         a \in Lined => todo[a] # <<>>,
         \A i \in 1..Len(steps) : Ordinary(a, steps[i]),
         \A s \in Sessions : sipCall'[s] \in {sipCall[s], None} \cup Dials,
         Guarded(a) /\ (a = Loop \/ Len(todo'[a]) # Len(steps)) =>
             Raced' \/ \A i \in 1..Len(steps) : Silent(steps[i]),
         \A n \in 1..Len(steps) : \A i \in 1..n : steps[n] = UnlockStep => Silent(steps[i]),
         todo[a] # <<>> /\ todo[a][1][1] = "clearSip"
             /\ Len(todo'[a]) # Len(steps) => Len(steps) = 0
  PROVE  IInv'
  <1> USE DEF IInv
  <1>0. None \notin Lined /\ Dials \cap Lined = {} BY NamesAssumption DEF Actors, Legs, Lined
  <1>1. Typed'
    BY DEF Typed, Shape, Steady, Moved
  <1>2. ClaimsFirst' /\ Fresh'
    <2>1. ASSUME NEW l \in Lined, Untouched(l), l # a,
                 todo[a] # <<>> => todo[a][1] \notin Begins(l)
          PROVE  /\ \A i \in 1..Len(steps) : steps[i] \notin Ends(l)
                 /\ closing'[l] = "open"
                 /\ \A g \in Gateways : active'[g] # l
                 /\ \A s \in Sessions : sipCall'[s] # l
      BY <1>0, <2>1 DEF Ordinary, Steady, Untouched
    <2>2. \A l \in Lined : \A i \in 1..Len(steps) : steps[i] \notin Begins(l) BY DEF Ordinary
    <2>3. UNCHANGED ofGw BY DEF Steady
    <2>. QED BY <2>1, <2>2, <2>3, ClaimsKept
  <1>3. CloseOnce' /\ ActiveLegIsOpen'
    <2>1. \A i \in 1..Len(steps) : steps[i][1] \notin {"legEnded", "closed", "claimLine"}
      BY DEF Ordinary
    <2>2. \A l \in Legs : \A i \in 1..Len(steps) : steps[i] = <<"endLeg", l>> => ofGw'[l] # None
      BY DEF Ordinary, Steady
    <2>. QED BY <2>1, <2>2, CloseKept DEF Steady
  <1>4. LoopSilent' /\ LockedSilent' /\ EndsSilently'
    <2>1. \A n \in 1..Len(steps) : steps[n][1] # "closed" BY DEF Ordinary
    <2>. QED BY <2>1, SilentKept DEF Steady
  <1>. QED BY <1>1, <1>2, <1>3, <1>4 DEF Order

LEMMA NoStep ==
  ASSUME IInv, NEW a \in Actors, todo[a] # <<>>, Then(a, <<>>), Steady,
         \A s \in Sessions : sipCall'[s] \in {sipCall[s], None}
  PROVE  IInv'
  <1> DEFINE steps == <<>>
  <1>1. steps \in Seq(StepsOf(a)) /\ Len(steps) = 0 OBVIOUS
  <1>2. Moved(a, steps) BY <1>1, ThenMoves DEF IInv
  <1>3. \A n \in 1..Len(steps) : FALSE BY <1>1
  <1>. HIDE DEF steps
  <1>. QED BY <1>1, <1>2, <1>3, OrdinaryKept

LEMMA SilentUnlock == Silent(UnlockStep)
  BY DEF Silent, SilentFor, UnlockStep

LEMMA OneStep ==
  ASSUME IInv, NEW a \in Actors, todo[a] # <<>>, NEW t \in StepsOf(a), Then(a, <<t>>), Steady,
         Ordinary(a, t), \A s \in Sessions : sipCall'[s] \in {sipCall[s], None} \cup Dials,
         Guarded(a) => Raced' \/ Silent(t),
         todo[a][1][1] # "clearSip"
  PROVE  IInv'
  <1> DEFINE steps == <<t>>
  <1>1. steps \in Seq(StepsOf(a)) /\ Len(steps) = 1 /\ steps[1] = t OBVIOUS
  <1>2. Moved(a, steps) BY <1>1, ThenMoves DEF IInv
  <1>3. \A n \in 1..Len(steps) : n = 1 BY <1>1
  <1>4. \A n \in 1..Len(steps) : \A i \in 1..n : i = 1 BY <1>1
  <1>. HIDE DEF steps
  <1>. QED BY <1>1, <1>2, <1>3, <1>4, OrdinaryKept, SilentUnlock

-----------------------------------------------------------------------------
(* The steps that only change stacks, the worker and the session.          *)

\* Only the steps of somebody are changed, and the worker's state.
LEMMA SteadyWorker ==
  ASSUME IInv, UNCHANGED <<gatewayVars, sessionVars, legVars, started>>,
         modem' \in {"none", "calling", "ringing", "talking"},
         call' \in CallStates, urcs' \in Seq(Lines), opMu' \in Actors \cup {None},
         owner' \in Actors \cup {None}, races \subseteq races',
         uac' \in {"ready", "unready", "gone"},
         races' \subseteq {"early", "gap", "busy", "late", "timeout"}
  PROVE  Steady /\ \A s \in Sessions : sipCall'[s] \in {sipCall[s], None}
  <1>1. TypeOK /\ active = [g \in Gateways |-> active[g]] BY DEF IInv, Typed, Shape
  <1>2. UNCHANGED <<up, stuck, gw, active, invite, ofGw, session, sessions, sipCall, ofSession,
                    closing, byModem, started>>
    BY DEF gatewayVars, sessionVars, legVars
  <1>3. call'.state \in {"idle", "dialing", "in_call"} BY DEF CallStates
  <1>4. \A i \in 1..Len(urcs') : urcs'[i] \in Lines OBVIOUS
  <1>5. TypeOK' BY <1>1, <1>2, <1>3, <1>4 DEF TypeOK, Lines
  <1>. QED BY <1>1, <1>2, <1>5 DEF Steady

LEMMA ReportedFacts ==
  ASSUME NEW x \in CallStates
  PROVE  Reported(x) \in CallStates
  BY DEF Reported, CallStates

LEMMA SetKept ==
  ASSUME IInv, NEW a \in Actors, NEW x, SetCallState(a, x)
  PROVE  IInv'
  <1>0. Typed /\ Doing(a, "set", x) BY DEF SetCallState, IInv
  <1>1. todo[a] # <<>> /\ todo[a][1] = <<"set", x>> /\ x \in CallStates
    BY <1>0, StepFacts
  <1>2. Steady /\ \A s \in Sessions : sipCall'[s] \in {sipCall[s], None}
    BY <1>1, SteadyWorker DEF SetCallState, Race, IInv, Typed, TypeOK, Shape
  <1>3. CASE Then(a, <<>>) BY <1>1, <1>2, <1>3, NoStep
  <1>4. ASSUME NEW y \in CallStates, Then(a, <<<<"sync", y>>>>) PROVE IInv'
    <2>1. <<"sync", y>> \in StepsOf(a) BY DEF StepsOf
    <2>2. Ordinary(a, <<"sync", y>>) /\ Silent(<<"sync", y>>)
      BY DEF Ordinary, Silent, SilentFor, Begins, Ends
    <2>. QED BY <1>1, <1>2, <1>4, <2>1, <2>2, OneStep
  <1>5. Reported(x) \in CallStates BY <1>1, ReportedFacts
  <1>. QED BY <1>3, <1>4, <1>5 DEF SetCallState, Notify

LEMMA EndSessionKept ==
  ASSUME IInv, NEW a \in Actors, EndSessionCallFromModem(a)
  PROVE  IInv'
  <1> DEFINE l == IF session = None THEN None ELSE sipCall[session]
  <1>1. todo[a] # <<>> /\ todo[a][1] = <<"endSession", None>>
    BY StepFacts DEF EndSessionCallFromModem, IInv
  <1>2. Steady /\ \A s \in Sessions : sipCall'[s] \in {sipCall[s], None}
    BY SteadyWorker DEF EndSessionCallFromModem, Race, IInv, Typed, TypeOK, Shape, workerVars
  <1>3. CASE Then(a, <<>>) BY <1>1, <1>2, <1>3, NoStep
  <1>4. CASE l # None /\ Then(a, <<<<"close", l>>>>) /\ Race({"gap"})
    <2>1. l \in Legs /\ \E s \in Sessions : sipCall[s] = l
      BY <1>4 DEF IInv, Typed, TypeOK
    <2>. HIDE DEF l
    <2>2. <<"close", l>> \in StepsOf(a) BY <2>1 DEF StepsOf
    <2>3. Ordinary(a, <<"close", l>>)
      BY <2>1 DEF Ordinary, Begins, Ends, Untouched
    <2>4. Raced' BY <1>4 DEF Raced, Unless, Race
    <2>. QED BY <1>1, <1>2, <1>4, <2>2, <2>3, <2>4, OneStep
  <1>. QED BY <1>3, <1>4 DEF EndSessionCallFromModem

\* Neither the loop nor a goroutine that has callOpMu to release is about to
\* take one of these steps, outside the named races.
LEMMA LoudHead ==
  ASSUME IInv, NEW a \in Actors, NEW op, NEW x, todo[a] # <<>>, todo[a][1] = <<op, x>>,
         op \in {"hangup", "at", "dial", "answer", "wait", "respond",
                 "closeSession", "hangupSip", "reboot"}, races \subseteq races'
  PROVE  Guarded(a) => Raced'
  <1>1. ~Silent(todo[a][1]) BY DEF Silent, SilentFor
  <1>. QED BY <1>1, GuardedHead, RacesKept

\* A call attempt that fails closes its own leg, or the session.
LEMMA GiveUpFacts ==
  ASSUME NEW a \in Legs \cup {"web"}
  PROVE  \E t \in StepsOf(a) : GiveUp(a) = <<t>> /\ Ordinary(a, t) /\ t # UnlockStep
  <1>1. CASE a = "web"
    <2>1. <<"closeSession", None>> \in StepsOf(a) BY <1>1 DEF StepsOf
    <2>2. Ordinary(a, <<"closeSession", None>>) BY DEF Ordinary, Begins, Ends
    <2>. QED BY <1>1, <2>1, <2>2 DEF GiveUp, UnlockStep
  <1>2. CASE a # "web"
    <2>1. <<"close", a>> \in StepsOf(a) BY <1>2 DEF StepsOf
    <2>2. Ordinary(a, <<"close", a>>) BY DEF Ordinary, Begins, Ends
    <2>. QED BY <1>2, <2>1, <2>2 DEF GiveUp, UnlockStep
  <1>. QED BY <1>1, <1>2

LEMMA DialAnswerKept ==
  ASSUME IInv, NEW a \in Actors, Dial(a) \/ Answer(a)
  PROVE  IInv'
  <1>0. Typed BY DEF IInv
  <1>1. PICK op \in {"dial", "answer"} : todo[a] # <<>> /\ todo[a][1] = <<op, None>>
                                         /\ a \in Legs \cup {"web"}
    <2>1. CASE Dial(a)
      <3>1. Doing(a, "dial", None) BY <2>1 DEF Dial
      <3>. QED BY <1>0, <3>1, StepFacts
    <2>2. CASE Answer(a)
      <3>1. Doing(a, "answer", None) BY <2>2 DEF Answer
      <3>. QED BY <1>0, <3>1, StepFacts
    <2>. QED BY <2>1, <2>2
  <1>2. Steady /\ \A s \in Sessions : sipCall'[s] \in {sipCall[s], None}
    BY SteadyWorker DEF Dial, Answer, IInv, Typed, TypeOK, Shape
  <1>3. Guarded(a) => Raced' BY <1>1, LoudHead DEF Dial, Answer
  <1>4. CASE Then(a, GiveUp(a))
    BY <1>1, <1>2, <1>3, <1>4, GiveUpFacts, OneStep
  <1>6. CASE todo' = [todo EXCEPT ![a] = GiveUp(a)]
    <2>1. PICK t \in StepsOf(a) : GiveUp(a) = <<t>> /\ Ordinary(a, t) /\ t # UnlockStep
      BY <1>1, GiveUpFacts
    <2>2. PICK steps : steps = <<t>> OBVIOUS
    <2>3. steps \in Seq(StepsOf(a)) /\ Len(steps) \in Nat /\ Len(steps) = 1 /\ steps[1] = t
      BY <2>2
    <2>4. Moved(a, steps) BY <1>0, <1>6, <2>1, <2>2, <2>3, StartMoves
    <2>5. \A n \in 1..Len(steps) : n = 1 BY <2>3
    <2>6. todo[a][1][1] # "clearSip" /\ \A s \in Sessions : sipCall'[s] \in {sipCall[s], None} \cup Dials
      BY <1>1, <1>2
    <2>. QED BY <1>1, <1>2, <1>3, <2>1, <2>3, <2>4, <2>5, <2>6, OrdinaryKept
  <1>5. ASSUME NEW c \in {"ATD", "ATA"}, Then(a, <<<<"at", c>>>>) PROVE IInv'
    <2>1. <<"at", c>> \in StepsOf(a) BY <1>1 DEF StepsOf
    <2>2. Ordinary(a, <<"at", c>>) BY DEF Ordinary, Begins, Ends
    <2>. QED BY <1>1, <1>2, <1>3, <1>5, <2>1, <2>2, OneStep
  <1>. QED BY <1>4, <1>5, <1>6 DEF Dial, Answer

LEMMA HangupKept ==
  ASSUME IInv, NEW a \in Actors, Hangup(a)
  PROVE  IInv'
  <1>1. todo[a] # <<>> /\ todo[a][1] = <<"hangup", None>>
    BY StepFacts DEF Hangup, IInv
  <1>2. Steady /\ \A s \in Sessions : sipCall'[s] \in {sipCall[s], None}
    BY SteadyWorker DEF Hangup, IInv, Typed, TypeOK, Shape
  <1>3. Guarded(a) => Raced' BY <1>1, LoudHead DEF Hangup
  <1>4. PICK c \in {"QPCMV", "ATH"} : Then(a, <<<<"at", c>>>>) BY DEF Hangup
  <1>5. <<"at", c>> \in StepsOf(a) BY DEF StepsOf
  <1>6. Ordinary(a, <<"at", c>>) BY DEF Ordinary, Begins, Ends
  <1>. QED BY <1>1, <1>2, <1>3, <1>4, <1>5, <1>6, OneStep

LEMMA UnlockKept ==
  ASSUME IInv, NEW a \in Actors, Unlock(a)
  PROVE  IInv'
  <1>1. todo[a] # <<>>
    BY StepFacts DEF Unlock, IInv
  <1>2. Steady /\ \A s \in Sessions : sipCall'[s] \in {sipCall[s], None}
    BY SteadyWorker DEF Unlock, IInv, Typed, TypeOK, Shape
  <1>. QED BY <1>1, <1>2, NoStep DEF Unlock

LEMMA RespondKept ==
  ASSUME IInv, NEW a \in Actors, NEW l \in Legs, RespondSDP(a, l)
  PROVE  IInv'
  <1>0. Typed /\ Doing(a, "respond", l) BY DEF RespondSDP, IInv
  <1>1. todo[a] # <<>> /\ todo[a][1] = <<"respond", l>> /\ l = a
    BY <1>0, StepFacts
  <1>2. Steady /\ \A s \in Sessions : sipCall'[s] \in {sipCall[s], None}
    BY SteadyWorker DEF RespondSDP, IInv, Typed, TypeOK, Shape, workerVars
  <1>3. Guarded(a) => Raced' BY <1>1, LoudHead DEF RespondSDP
  <1>4. <<"close", l>> \in StepsOf(a) BY DEF StepsOf
  <1>5. Ordinary(a, <<"close", l>>) BY <1>1 DEF Ordinary, Begins, Ends
  <1>. QED BY <1>1, <1>2, <1>3, <1>4, <1>5, NoStep, OneStep DEF RespondSDP

\* Steps that end in the release of callOpMu, and what may come after it.
Fine(a, steps) ==
    /\ steps \in Seq(StepsOf(a))
    /\ \A i \in 1..Len(steps) : Ordinary(a, steps[i])
    /\ \A n \in 1..Len(steps) : \A i \in 1..n : steps[n] = UnlockStep => Silent(steps[i])

AllSilent(steps) == \A i \in 1..Len(steps) : Silent(steps[i])

LEMMA FineStep ==
  ASSUME NEW a \in Actors, NEW t \in StepsOf(a), Ordinary(a, t), t = UnlockStep => Silent(t)
  PROVE  Fine(a, <<>>) /\ AllSilent(<<>>) /\ Fine(a, <<t>>) /\ (Silent(t) => AllSilent(<<t>>))
  <1> DEFINE S == StepsOf(a)
  <1>1. t \in S OBVIOUS
  <1> HIDE DEF S
  <1>2. <<>> \in Seq(S) /\ Len(<<>>) = 0 /\ <<t>> \in Seq(S) /\ Len(<<t>>) = 1 /\ <<t>>[1] = t
    BY <1>1
  <1>3. \A i \in 1..Len(<<t>>) : i = 1 /\ \A k \in 1..i : k = 1 BY <1>2
  <1>4. \A i \in 1..Len(<<>>) : FALSE BY <1>2
  <1>. QED BY <1>2, <1>3, <1>4 DEF Fine, AllSilent, S

LEMMA FineConcat ==
  ASSUME NEW a \in Actors, NEW r, NEW s, Fine(a, r), AllSilent(r), Fine(a, s)
  PROVE  Fine(a, r \o s) /\ (AllSilent(s) => AllSilent(r \o s))
  <1> DEFINE S == StepsOf(a)
  <1>1. r \in Seq(S) /\ s \in Seq(S) BY DEF Fine
  <1> HIDE DEF S
  <1>2. r \o s \in Seq(S) /\ Len(r) \in Nat /\ Len(s) \in Nat /\ Len(r \o s) = Len(r) + Len(s)
    BY <1>1
  <1>3. \A i \in 1..Len(r \o s) :
           \/ i \in 1..Len(r) /\ (r \o s)[i] = r[i]
           \/ i - Len(r) \in 1..Len(s) /\ i > Len(r) /\ (r \o s)[i] = s[i - Len(r)]
    <2> SUFFICES ASSUME NEW i \in 1..Len(r \o s)
                 PROVE  \/ i \in 1..Len(r) /\ (r \o s)[i] = r[i]
                        \/ i - Len(r) \in 1..Len(s) /\ i > Len(r) /\ (r \o s)[i] = s[i - Len(r)]
      OBVIOUS
    <2>1. CASE i <= Len(r) BY <1>1, <1>2, <2>1
    <2>2. CASE i > Len(r) BY <1>1, <1>2, <2>2
    <2>. QED BY <1>2, <2>1, <2>2
  <1>4. \A i \in 1..Len(r \o s) : Ordinary(a, (r \o s)[i]) BY <1>3 DEF Fine
  <1>5. ASSUME NEW n \in 1..Len(r \o s), NEW i \in 1..n, (r \o s)[n] = UnlockStep
        PROVE  Silent((r \o s)[i])
    <2>0. i \in 1..Len(r \o s) BY <1>2
    <2>1. CASE i \in 1..Len(r)
      BY <1>2, <1>3, <2>0, <2>1 DEF AllSilent
    <2>2. CASE i \notin 1..Len(r)
      <3>1. /\ i - Len(r) \in 1..Len(s) /\ i > Len(r) /\ (r \o s)[i] = s[i - Len(r)]
            /\ n - Len(r) \in 1..Len(s) /\ (r \o s)[n] = s[n - Len(r)]
        BY <1>2, <1>3, <2>0, <2>2
      <3>2. i - Len(r) \in 1..(n - Len(r)) BY <1>2, <3>1
      <3>. QED BY <1>5, <3>1, <3>2 DEF Fine
    <2>. QED BY <2>1, <2>2
  <1>6. AllSilent(s) => AllSilent(r \o s) BY <1>3 DEF AllSilent
  <1>. QED BY <1>2, <1>4, <1>5, <1>6 DEF Fine, S

LEMMA PlainSteps ==
  ASSUME NEW a
  PROVE  /\ UnlockStep \in StepsOf(a) /\ Ordinary(a, UnlockStep) /\ Silent(UnlockStep)
         /\ \A x \in CallStates : /\ <<"set", x>> \in StepsOf(a) /\ Ordinary(a, <<"set", x>>)
                                  /\ Silent(<<"set", x>>)
  <1>1. UnlockStep \in StepsOf(a) BY DEF StepsOf, UnlockStep
  <1>2. Ordinary(a, UnlockStep) BY DEF Ordinary, UnlockStep, Begins, Ends
  <1>3. \A x \in CallStates : <<"set", x>> \in StepsOf(a) BY DEF StepsOf
  <1>4. \A x : Ordinary(a, <<"set", x>>) /\ Silent(<<"set", x>>)
    BY DEF Ordinary, Silent, SilentFor, Begins, Ends
  <1>. QED BY <1>1, <1>2, <1>3, <1>4, SilentUnlock

LEMMA StateFacts ==
  /\ Idle \in CallStates
  /\ \A s \in {"idle", "dialing", "in_call"}, i \in BOOLEAN, r \in BOOLEAN :
        CallState(s, i, r) \in CallStates
  BY DEF Idle, CallState, CallStates

LEMMA AnswerSteps ==
  ASSUME NEW a \in Actors, NEW c \in Commands, c \in {"ATD", "ATA"} => a \in Legs \cup {"web"}
  PROVE  Fine(a, Accepted(c)) /\ Fine(a, Refused(a, c))
  <1> DEFINE d == <<"set", CallState("dialing", FALSE, FALSE)>>
             n == <<"set", CallState("in_call", FALSE, FALSE)>>
             m == <<"set", CallState("in_call", TRUE, FALSE)>>
             e == <<"set", Idle>>
             F(steps) == Fine(a, steps) /\ AllSilent(steps)
  <1>1. \A t \in {d, n, m, e, UnlockStep} : t \in StepsOf(a) /\ Ordinary(a, t) /\ Silent(t)
    BY PlainSteps, StateFacts
  <1>2. /\ Accepted("ATD") = <<d, n>> \o Unlocked
        /\ Accepted("ATA") = <<m>> \o Unlocked
        /\ c \in {"ATH", "QPCMV"} => Accepted(c) = <<e>> \o Unlocked
        /\ Accepted("CFUN") = <<>>
    BY DEF Accepted
  <1>3. /\ Refused(a, "ATH") = Unlocked /\ Refused(a, "QPCMV") = Accepted("QPCMV")
        /\ Refused(a, "CFUN") = <<>>
        /\ Refused(a, "ATD") = (<<e>> \o Unlocked) \o GiveUp(a)
        /\ Refused(a, "ATA") = Unlocked \o GiveUp(a)
    BY DEF Refused
  <1> HIDE DEF d, n, m, e
  <1>4. F(<<>>) /\ F(<<m>>) /\ F(<<e>>) /\ F(<<UnlockStep>>)
    BY <1>1, FineStep
  <1>5. F(<<d, n>>)
    <2>0. UnlockStep # d /\ UnlockStep # n BY DEF d, n, UnlockStep
    <2>1. /\ <<d, n>> \in Seq(StepsOf(a)) /\ Len(<<d, n>>) = 2
          /\ <<d, n>>[1] = d /\ <<d, n>>[2] = n
      BY <1>1
    <2>2. \A i \in 1..Len(<<d, n>>) : i \in {1, 2} BY <2>1
    <2>. QED BY <1>1, <2>0, <2>1, <2>2 DEF Fine, AllSilent
  <1>6. F(Unlocked) BY <1>4 DEF Unlocked, UnlockStep
  <1>7. F(<<d, n>> \o Unlocked) /\ F(<<m>> \o Unlocked) /\ F(<<e>> \o Unlocked)
    BY <1>4, <1>5, <1>6, FineConcat
  <1> HIDE DEF F
  <1>8. F(Accepted(c)) /\ F(Accepted("QPCMV"))
    BY <1>2, <1>4, <1>7 DEF Commands, Accepted, e
  <1>9. CASE c \in {"ATD", "ATA"}
    <2>1. PICK t \in StepsOf(a) : GiveUp(a) = <<t>> /\ Ordinary(a, t) /\ t # UnlockStep
      BY <1>9, GiveUpFacts
    <2>2. Fine(a, GiveUp(a)) BY <2>1, FineStep
    <2>3. Fine(a, (<<e>> \o Unlocked) \o GiveUp(a)) /\ Fine(a, Unlocked \o GiveUp(a))
      BY <1>6, <1>7, <2>2, FineConcat DEF F
    <2>. QED BY <1>3, <1>8, <1>9, <2>3 DEF F
  <1>10. CASE c \notin {"ATD", "ATA"}
    BY <1>3, <1>4, <1>6, <1>8, <1>10 DEF Commands, F
  <1>. QED BY <1>9, <1>10

LEMMA ReplyKept ==
  ASSUME IInv, NEW a \in Actors, NEW c \in Commands, Reply(a, c)
  PROVE  IInv'
  <1>0. Typed /\ Doing(a, "at", c) BY DEF Reply, IInv
  <1>1. todo[a] # <<>> /\ todo[a][1] = <<"at", c>>
        /\ (c \in {"ATD", "ATA"} => a \in Legs \cup {"web"})
    BY <1>0, StepFacts
  <1>2. modem' \in {"none", "calling", "ringing", "talking"}
    BY <1>0 DEF Reply, Effect, Typed, TypeOK, Commands
  <1>3. Steady /\ \A s \in Sessions : sipCall'[s] \in {sipCall[s], None}
    BY <1>2, SteadyWorker DEF Reply, Race, IInv, Typed, TypeOK, Shape
  <1>4. Guarded(a) => Raced' BY <1>1, LoudHead DEF Reply, Race
  <1>5. PICK steps \in {Accepted(c), Refused(a, c)} :
           Then(a, steps) \/ todo' = [todo EXCEPT ![a] = steps \o <<>>]
    BY DEF Reply, Then
  <1>6. Fine(a, steps) BY <1>1, AnswerSteps
  <1>7. steps \in Seq(StepsOf(a)) /\ Len(steps) \in Nat BY <1>6 DEF Fine
  <1>8. steps \o <<>> = steps BY <1>7
  <1>9. Moved(a, steps)
    BY <1>0, <1>1, <1>5, <1>7, <1>8, ThenMoves, StartMoves
  <1>10. \A s \in Sessions : sipCall'[s] \in {sipCall[s], None} \cup Dials BY <1>3
  <1>11. todo[a][1][1] # "clearSip" BY <1>1
  <1>. QED BY <1>1, <1>3, <1>4, <1>6, <1>7, <1>9, <1>10, <1>11, OrdinaryKept DEF Fine

LEMMA HandleURCKept ==
  ASSUME IInv, HandleURC
  PROVE  IInv'
  <1>0. Typed /\ Loop \in Actors /\ Loop \notin Lined
    BY NamesAssumption DEF IInv, Actors, Legs, Lined
  <1>1. urcs \in Seq(Lines) /\ urcs # <<>> /\ Head(urcs) \in Lines /\ urcs' \in Seq(Lines)
    <2>1. urcs \in Seq(Lines) /\ urcs # <<>> /\ urcs' = Tail(urcs)
      BY <1>0 DEF HandleURC, Typed, Shape
    <2>. QED BY <2>1
  <1>2. Steady /\ \A s \in Sessions : sipCall'[s] \in {sipCall[s], None}
    BY <1>1, SteadyWorker DEF HandleURC, IInv, Typed, TypeOK, Shape
  <1>3. todo[Loop] = <<>> BY DEF HandleURC
  <1>4. PICK steps : /\ todo' = [todo EXCEPT ![Loop] = steps]
                     /\ steps = <<>> \/ \E x \in CallStates : steps = <<<<"set", x>>>>
    <2> DEFINE line == Head(urcs)
    <2>1. CASE line = "NO CARRIER"
      BY <2>1, StateFacts DEF HandleURC
    <2>2. CASE line = "RING" /\ call.state # "idle"
      BY <2>2 DEF HandleURC
    <2>3. CASE line = "RING" /\ call.state = "idle"
      BY <2>3, StateFacts DEF HandleURC
    <2>4. CASE line = "CLCC"
      BY <2>4, StateFacts DEF HandleURC
    <2>5. CASE line = "ACTIVE"
      BY <2>5, StateFacts DEF HandleURC
    <2>. QED BY <1>1, <2>1, <2>2, <2>3, <2>4, <2>5 DEF Lines
  <1>5. Fine(Loop, steps) /\ Len(steps) \in Nat /\ \A i \in 1..Len(steps) : Silent(steps[i])
    <2>0. \A t : t \in StepsOf(Loop) /\ Ordinary(Loop, t) /\ Silent(t) =>
                  Fine(Loop, <<>>) /\ Fine(Loop, <<t>>)
      BY <1>0, FineStep
    <2>1. CASE steps = <<>>
      BY <1>0, <2>1, PlainSteps, FineStep DEF AllSilent
    <2>2. ASSUME NEW x \in CallStates, steps = <<<<"set", x>>>>
          PROVE  Fine(Loop, steps) /\ Len(steps) \in Nat /\ \A i \in 1..Len(steps) : Silent(steps[i])
      <3>1. PICK t : t = <<"set", x>> OBVIOUS
      <3>2. steps = <<t>> /\ t \in StepsOf(Loop) /\ Ordinary(Loop, t) /\ Silent(t)
        BY <2>2, <3>1, PlainSteps
      <3>. QED BY <2>0, <3>2
    <2>. QED BY <1>4, <2>1, <2>2
  <1>6. Moved(Loop, steps) BY <1>0, <1>4, <1>5, StartMoves DEF Fine
  <1>. QED BY <1>0, <1>2, <1>3, <1>5, <1>6, OrdinaryKept DEF Fine

LEMMA RebootKept ==
  ASSUME IInv, Reboot
  PROVE  IInv'
  <1> DEFINE x == [call EXCEPT !.state = "idle"]
  <1>0. Typed /\ "web" \in Actors BY DEF IInv, Actors
  <1>1. todo["web"] # <<>> /\ todo["web"][1] = <<"reboot", None>>
    BY <1>0, StepFacts DEF Reboot
  <1>2. Steady /\ \A s \in Sessions : sipCall'[s] \in {sipCall[s], None}
    BY SteadyWorker DEF Reboot, IInv, Typed, TypeOK, Shape, workerVars
  <1>3. Guarded("web") => Raced' BY <1>0, <1>1, LoudHead DEF Reboot
  <1>4. x \in CallStates BY <1>0 DEF Typed, Shape, CallStates
  <1>5. Then("web", <<<<"set", x>>>>) BY DEF Reboot
  <1> HIDE DEF x
  <1>6. <<"set", x>> \in StepsOf("web") /\ Ordinary("web", <<"set", x>>) BY <1>4, PlainSteps
  <1>. QED BY <1>0, <1>1, <1>2, <1>3, <1>5, <1>6, OneStep

LEMMA HangupSIPKept ==
  ASSUME IInv, HangupSIP
  PROVE  IInv'
  <1> DEFINE l == IF session = None THEN None ELSE sipCall[session]
  <1>0. Typed /\ "web" \in Actors BY DEF IInv, Actors
  <1>1. todo["web"] # <<>> /\ todo["web"][1] = <<"hangupSip", None>>
    BY <1>0, StepFacts DEF HangupSIP
  <1>2. Steady /\ \A s \in Sessions : sipCall'[s] \in {sipCall[s], None}
    BY SteadyWorker DEF HangupSIP, IInv, Typed, TypeOK, Shape, workerVars
  <1>3. Guarded("web") => Raced' BY <1>0, <1>1, LoudHead DEF HangupSIP
  <1>4. CASE Then("web", <<>>) BY <1>0, <1>1, <1>2, <1>4, NoStep
  <1>5. CASE l # None /\ Then("web", <<<<"close", l>>>>)
    <2>1. l \in Legs /\ \E s \in Sessions : sipCall[s] = l
      BY <1>0, <1>5 DEF Typed, TypeOK
    <2>. HIDE DEF l
    <2>2. <<"close", l>> \in StepsOf("web") BY <2>1 DEF StepsOf
    <2>3. Ordinary("web", <<"close", l>>)
      BY <2>1 DEF Ordinary, Begins, Ends, Untouched
    <2>. QED BY <1>0, <1>1, <1>2, <1>3, <1>5, <2>2, <2>3, OneStep
  <1>. QED BY <1>4, <1>5 DEF HangupSIP

LEMMA CloseSessionKept ==
  ASSUME IInv, NEW a \in Actors, CloseSession(a)
  PROVE  IInv'
  <1>0. Typed BY DEF IInv
  <1>1. todo[a] # <<>> /\ todo[a][1] = <<"closeSession", None>>
    BY <1>0, StepFacts DEF CloseSession
  <1>2. \A s \in Sessions : sipCall'[s] \in {sipCall[s], None}
    BY <1>0 DEF CloseSession, Typed, TypeOK
  <1>3. Steady
    <2>1. sipCall' \in [Sessions -> Legs \cup {None}]
      BY <1>0 DEF CloseSession, Typed, TypeOK
    <2>2. session' = None
          /\ UNCHANGED <<uac, up, stuck, modem, urcs, call, opMu, gw, active, invite, ofGw, sessions, ofSession,
                         closing, byModem, started, owner, races>>
      BY DEF CloseSession, workerVars, gatewayVars, legVars
    <2>3. TypeOK' BY <1>0, <2>1, <2>2 DEF Typed, TypeOK
    <2>. QED BY <1>0, <2>2, <2>3 DEF Typed, Shape, Steady
  <1>4. Guarded(a) => Raced' BY <1>1, LoudHead DEF CloseSession
  <1>5. CASE Then(a, <<>>) BY <1>1, <1>2, <1>3, <1>5, NoStep
  <1>6. ASSUME NEW l, session # None, l = sipCall[session], l # None, Then(a, <<<<"close", l>>>>)
        PROVE  IInv'
    <2>1. l \in Legs /\ \E s \in Sessions : sipCall[s] = l
      BY <1>0, <1>6 DEF Typed, TypeOK
    <2>2. <<"close", l>> \in StepsOf(a) BY <2>1 DEF StepsOf
    <2>3. Ordinary(a, <<"close", l>>)
      BY <2>1 DEF Ordinary, Begins, Ends, Untouched
    <2>. QED BY <1>1, <1>2, <1>3, <1>4, <1>6, <2>2, <2>3, OneStep
  <1>7. CASE Then(a, <<<<"locked", None>>>>)
    <2>0. <<"closeSession", None>> \in StepsOf(a) BY <1>0, <1>1, StackFacts
    <2>1. a = "web" BY <2>0 DEF StepsOf
    <2>2. <<"locked", None>> \in StepsOf(a) BY <2>1 DEF StepsOf
    <2>3. Ordinary(a, <<"locked", None>>) BY DEF Ordinary, Begins, Ends
    <2>. QED BY <1>1, <1>2, <1>3, <1>4, <1>7, <2>2, <2>3, OneStep
  <1>. QED BY <1>5, <1>6, <1>7 DEF CloseSession

LEMMA ClearSipKept ==
  ASSUME IInv, NEW a \in Actors, NEW l \in Legs, ClearSipCall(a, l)
  PROVE  IInv'
  <1>0. Typed BY DEF IInv
  <1>1. todo[a] # <<>>
    BY <1>0, StepFacts DEF ClearSipCall
  <1>2. \A s \in Sessions : sipCall'[s] \in {sipCall[s], None}
    BY <1>0 DEF ClearSipCall, Typed, TypeOK
  <1>3. Steady
    <2>1. sipCall' \in [Sessions -> Legs \cup {None}]
      BY <1>0 DEF ClearSipCall, Typed, TypeOK
    <2>2. UNCHANGED <<uac, up, stuck, modem, urcs, call, opMu, gw, active, invite, ofGw, session, sessions,
                      ofSession, closing, byModem, started, owner, races>>
      BY DEF ClearSipCall, workerVars, gatewayVars, legVars
    <2>3. TypeOK' BY <1>0, <2>1, <2>2 DEF Typed, TypeOK
    <2>. QED BY <1>0, <2>2, <2>3 DEF Typed, Shape, Steady
  <1>. QED BY <1>1, <1>2, <1>3, NoStep DEF ClearSipCall

LEMMA WaitAnswerKept ==
  ASSUME IInv, NEW a \in Actors, NEW l \in Legs, WaitAnswer(a, l)
  PROVE  IInv'
  <1>0. Typed /\ Doing(a, "wait", l) BY DEF IInv, WaitAnswer
  <1>1. todo[a] # <<>> /\ todo[a][1] = <<"wait", l>> /\ l = a
    BY <1>0, StepFacts
  <1>2. \A s \in Sessions : sipCall'[s] \in {sipCall[s], None}
    BY DEF WaitAnswer, sessionVars
  <1>3. Steady
    <2>1. invite' \in [Legs -> {"none", "armed", "cancelled"}]
      BY <1>0 DEF WaitAnswer, Typed, TypeOK
    <2>2. UNCHANGED <<uac, up, stuck, modem, urcs, call, opMu, gw, active, ofGw, session, sessions, sipCall,
                      ofSession, closing, byModem, started, owner>>
      BY DEF WaitAnswer, workerVars, sessionVars, legVars
    <2>3. races \subseteq races' /\ races' \subseteq {"early", "gap", "busy", "late", "timeout"}
      BY <1>0 DEF WaitAnswer, Race, Typed, TypeOK
    <2>4. TypeOK' BY <1>0, <2>1, <2>2, <2>3 DEF Typed, TypeOK
    <2>. QED BY <1>0, <2>2, <2>3, <2>4 DEF Typed, Shape, Steady
  <1>4. Guarded(a) => Raced' BY <1>1, <1>3, LoudHead DEF Steady
  <1>5. CASE Then(a, <<>>) BY <1>1, <1>2, <1>3, <1>5, NoStep
  <1>6. CASE Then(a, <<<<"answer", None>>>>)
    <2>1. <<"answer", None>> \in StepsOf(a) BY <1>1 DEF StepsOf
    <2>2. Ordinary(a, <<"answer", None>>) BY DEF Ordinary, Begins, Ends
    <2>. QED BY <1>1, <1>2, <1>3, <1>4, <1>6, <2>1, <2>2, OneStep
  <1>7. CASE Then(a, <<<<"close", l>>>>)
    <2>1. <<"close", l>> \in StepsOf(a) BY DEF StepsOf
    <2>2. Ordinary(a, <<"close", l>>) BY <1>1 DEF Ordinary, Begins, Ends
    <2>. QED BY <1>1, <1>2, <1>3, <1>4, <1>7, <2>1, <2>2, OneStep
  <1>. QED BY <1>5, <1>6, <1>7 DEF WaitAnswer

-----------------------------------------------------------------------------
(* The goroutines that start.                                              *)

LEMMA StartKept ==
  ASSUME IInv, NEW a \in {"web", "bye", "sync"} \cup Dials, NEW steps, Fine(a, steps),
         todo' = [todo EXCEPT ![a] = steps], Steady,
         \A s \in Sessions : sipCall'[s] \in {sipCall[s], None}
  PROVE  IInv'
  <1>1. a \in Actors /\ a \notin Lined /\ a # Loop
    BY NamesAssumption DEF Actors, Legs, Lined, Loop
  <1>2. steps \in Seq(StepsOf(a)) /\ Len(steps) \in Nat BY DEF Fine
  <1>3. Moved(a, steps) BY <1>1, <1>2, StartMoves DEF IInv
  <1>4. todo'[a] = steps BY <1>1 DEF IInv, Typed, Shape
  <1>. QED BY <1>1, <1>2, <1>3, <1>4, OrdinaryKept DEF Fine

LEMMA EnsureTyped ==
  ASSUME Typed, EnsureSession
  PROVE  /\ Ensured \in Sessions /\ session' \in Sessions /\ session' = Ensured
         /\ sessions' \in 0..MaxSessions
  <1>1. session' = Ensured /\ Ensured \in Sessions BY DEF EnsureSession
  <1>2. sessions' \in {Ensured, sessions} /\ sessions \in 0..MaxSessions
    BY DEF EnsureSession, Typed, TypeOK
  <1>3. Sessions \subseteq 0..MaxSessions BY BoundsAssumption DEF Sessions
  <1>. QED BY <1>1, <1>2, <1>3

LEMMA StartedTyped ==
  ASSUME Typed, Started
  PROVE  started' \in 0..MaxStarted
  <1>1. started \in 0..MaxStarted BY DEF Typed, TypeOK
  <1>. QED BY <1>1, BoundsAssumption DEF Started

LEMMA RequestKept ==
  ASSUME IInv, NEW steps, Fine("web", steps), Request(steps), UNCHANGED <<sipCall, stuck, ofSession>>,
         EnsureSession \/ UNCHANGED <<session, sessions>>
  PROVE  IInv'
  <1>0. Typed BY DEF IInv
  <1>1. UNCHANGED <<uac, up, stuck, modem, urcs, call, opMu, gw, active, invite, ofGw, closing, byModem, owner,
                    races, sipCall, ofSession>>
    BY DEF Request, workerVars, gatewayVars, legVars
  <1>2. session' \in Sessions \cup {None} /\ sessions' \in 0..MaxSessions
    BY <1>0, EnsureTyped DEF Typed, TypeOK
  <1>3. started' \in 0..MaxStarted BY <1>0, StartedTyped DEF Request
  <1>4. TypeOK' BY <1>0, <1>1, <1>2, <1>3 DEF Typed, TypeOK
  <1>5. Steady BY <1>0, <1>1, <1>4 DEF Steady, Typed, Shape
  <1>. QED BY <1>1, <1>5, StartKept DEF Request

LEMMA FineOne ==
  ASSUME NEW a \in Actors, NEW t \in StepsOf(a), Ordinary(a, t)
  PROVE  Fine(a, <<>>) /\ Fine(a, <<t>>)
  BY FineStep, SilentUnlock

\* A stack with no unlocking on it.
LEMMA FineAll ==
  ASSUME NEW a \in Actors, NEW steps \in Seq(StepsOf(a)),
         \A i \in 1..Len(steps) : Ordinary(a, steps[i]) /\ steps[i] # UnlockStep
  PROVE  Fine(a, steps)
  BY DEF Fine

LEMMA ApiSteps ==
  /\ \A op \in {"dial", "closeSession", "hangupSip"} : Fine("web", <<<<op, None>>>>)
  /\ Fine("web", <<<<"hangup", None>>, <<"closeSession", None>>>>)
  /\ Fine("web", <<<<"closeSession", None>>, <<"reboot", None>>, <<"unready", None>>,
                   <<"at", "CFUN">>>>)
  <1> DEFINE W == {<<op, None>> : op \in {"dial", "closeSession", "hangupSip", "hangup", "reboot",
                                          "unready"}}
                  \cup {<<"at", "CFUN">>}
  <1>0. "web" \in Actors BY DEF Actors
  <1>1. \A t \in W : t \in StepsOf("web") /\ Ordinary("web", t) /\ t # UnlockStep
    <2>1. \A t \in W : t \in StepsOf("web") BY DEF StepsOf
    <2>2. \A t \in W : Ordinary("web", t) /\ t # UnlockStep
      BY DEF Ordinary, Begins, Ends, UnlockStep
    <2>. QED BY <2>1, <2>2
  <1>2. \A op \in {"dial", "closeSession", "hangupSip"} : <<op, None>> \in W OBVIOUS
  <1>3. <<"hangup", None>> \in W /\ <<"closeSession", None>> \in W /\ <<"reboot", None>> \in W
        /\ <<"unready", None>> \in W /\ <<"at", "CFUN">> \in W
    OBVIOUS
  <1> HIDE DEF W
  <1>4. \A t \in W : Fine("web", <<t>>) BY <1>0, <1>1, FineOne
  <1>5. ASSUME NEW q \in W, NEW r \in W, NEW s \in W, NEW t \in W
        PROVE  Fine("web", <<q, r>>) /\ Fine("web", <<q, r, s, t>>)
    <2>1. /\ <<q, r>> \in Seq(W) /\ <<q, r>> \in Seq(StepsOf("web"))
          /\ <<q, r, s, t>> \in Seq(W) /\ <<q, r, s, t>> \in Seq(StepsOf("web"))
      BY <1>1
    <2>2. \A u \in Seq(W) : \A i \in 1..Len(u) : u[i] \in W OBVIOUS
    <2>3. \A u \in Seq(W) : u \in Seq(StepsOf("web")) => Fine("web", u)
      BY <1>0, <1>1, <2>2, FineAll
    <2>. QED BY <2>1, <2>3
  <1>. QED BY <1>2, <1>3, <1>4, <1>5

LEMMA WebKept ==
  ASSUME IInv, WebDial \/ WebHangup \/ WebReboot
  PROVE  IInv'
  <1>1. CASE WebDial BY <1>1, ApiSteps, RequestKept DEF WebDial
  <1>2. CASE WebHangup BY <1>2, ApiSteps, RequestKept DEF WebHangup, sessionVars
  <1>3. CASE WebReboot BY <1>3, ApiSteps, RequestKept DEF WebReboot, sessionVars
  <1>. QED BY <1>1, <1>2, <1>3

LEMMA DialSIPKept ==
  ASSUME IInv, NEW d \in Dials, DialSIP(d)
  PROVE  IInv'
  <1>0. Typed /\ d \in Actors /\ d \in Legs /\ d \notin Lined
    BY NamesAssumption DEF IInv, Actors, Legs, Lined
  <1>1. UNCHANGED <<uac, up, stuck, modem, urcs, call, opMu, gw, active, invite, ofGw, closing, byModem, owner,
                    races, sipCall>>
    BY DEF DialSIP, workerVars, gatewayVars, legVars
  <1>2. session' \in Sessions \cup {None} /\ sessions' \in 0..MaxSessions /\ Ensured \in Sessions
    BY <1>0, EnsureTyped DEF DialSIP
  <1>3. started' \in 0..MaxStarted BY <1>0, StartedTyped DEF DialSIP
  <1>4. ofSession' \in [Legs -> Sessions \cup {None}]
    BY <1>0, <1>2 DEF DialSIP, Typed, TypeOK
  <1>5. TypeOK' BY <1>0, <1>1, <1>2, <1>3, <1>4 DEF Typed, TypeOK
  <1>6. Steady BY <1>0, <1>1, <1>5 DEF Steady, Typed, Shape
  <1>7. <<"claim", d>> \in StepsOf(d) BY DEF StepsOf
  <1>8. Ordinary(d, <<"claim", d>>) BY <1>0 DEF Ordinary, Begins, Ends
  <1>9. Fine(d, <<<<"claim", d>>>>) BY <1>0, <1>7, <1>8, FineOne
  <1>. QED BY <1>1, <1>6, <1>9, StartKept DEF DialSIP

LEMMA OnByeKept ==
  ASSUME IInv, NEW l \in Legs, OnBye(l)
  PROVE  IInv'
  <1>0. Typed /\ "bye" \in Actors BY DEF IInv, Actors
  <1>1. Steady /\ \A s \in Sessions : sipCall'[s] \in {sipCall[s], None}
    BY SteadyWorker DEF OnBye, IInv, Typed, TypeOK, Shape, workerVars
  <1>2. <<"close", l>> \in StepsOf("bye") BY DEF StepsOf
  <1>3. l \in Lined => ~Untouched(l)
    BY <1>0, NamesAssumption DEF OnBye, ActiveByRequest, Untouched, Typed, TypeOK, Lined
  <1>4. Ordinary("bye", <<"close", l>>) BY <1>3 DEF Ordinary, Begins, Ends
  <1>5. Fine("bye", <<<<"close", l>>>>) BY <1>0, <1>2, <1>4, FineOne
  <1>. QED BY <1>1, <1>5, StartKept DEF OnBye

LEMMA PairConcat ==
  ASSUME NEW t, NEW u
  PROVE  <<t>> \o <<u>> = <<t, u>>
  <1> DEFINE S == Seq({t, u})
  <1>1. <<t>> \in S /\ <<u>> \in S /\ <<t, u>> \in S OBVIOUS
  <1>2. /\ Len(<<t>>) = 1 /\ <<t>>[1] = t /\ Len(<<u>>) = 1 /\ <<u>>[1] = u
        /\ Len(<<t, u>>) = 2
    OBVIOUS
  <1>3. \A x, y \in S :
          /\ x \o y \in S /\ Len(x \o y) = Len(x) + Len(y)
          /\ \A i \in 1..Len(x) + Len(y) :
                (x \o y)[i] = IF i <= Len(x) THEN x[i] ELSE y[i - Len(x)]
    OBVIOUS
  <1>4. PICK z : z = <<t>> \o <<u>> OBVIOUS
  <1>5. z \in S /\ Len(z) = 2 BY <1>1, <1>2, <1>3, <1>4
  <1>6. z[1] = t /\ z[2] = u BY <1>1, <1>2, <1>3, <1>4
  <1>7. \A x, y \in S : Len(x) = 2 /\ Len(y) = 2 /\ x[1] = y[1] /\ x[2] = y[2] => x = y OBVIOUS
  <1>. QED BY <1>1, <1>2, <1>4, <1>5, <1>6, <1>7

LEMMA SyncSIPInboundKept ==
  ASSUME IInv, SyncSIPInbound
  PROVE  IInv'
  <1>0. Typed /\ "sync" \in Actors BY DEF IInv, Actors
  <1>1. UNCHANGED <<uac, stuck, modem, urcs, call, opMu, gw, invite, ofGw, session, sessions, sipCall,
                    ofSession, closing, byModem, owner, races>>
    BY DEF SyncSIPInbound, workerVars, sessionVars, legVars
  <1>2. gw \in Gateways BY <1>0 DEF Typed, TypeOK
  <1>3. /\ active' = [active EXCEPT ![gw] = None] \/ UNCHANGED active
        /\ active = [g \in Gateways |-> active[g]] /\ up' \in BOOLEAN
    BY <1>0 DEF SyncSIPInbound, Typed, Shape
  <1>4. active' = [g \in Gateways |-> active'[g]]
        /\ \A g \in Gateways : active'[g] \in {active[g], None}
    BY <1>3
  <1>5. started' \in 0..MaxStarted BY <1>0, StartedTyped DEF SyncSIPInbound
  <1>6. TypeOK' BY <1>0, <1>1, <1>2, <1>3, <1>4, <1>5 DEF Typed, TypeOK
  <1>7. Steady BY <1>0, <1>1, <1>4, <1>6 DEF Steady, Typed, Shape
  <1>8. /\ <<"newGateway", None>> \in StepsOf("sync") /\ Ordinary("sync", <<"newGateway", None>>)
        /\ <<"newGateway", None>> # UnlockStep
    BY DEF StepsOf, Ordinary, Begins, Ends, UnlockStep
  <1>9. Fine("sync", NewGateway) BY <1>0, <1>8, FineOne DEF NewGateway
  <1>10. Fine("sync", GatewayClose \o NewGateway)
    <2>1. CASE active[gw] = None
      <3>1. GatewayClose \o NewGateway = NewGateway BY <2>1 DEF GatewayClose, NewGateway
      <3>. QED BY <1>9, <3>1
    <2>2. CASE active[gw] # None
      <3>1. PICK l \in Legs : l = active[gw] BY <1>0, <1>2, <2>2 DEF Typed, TypeOK
      <3>2. GatewayClose \o NewGateway = <<<<"close", l>>, <<"newGateway", None>>>>
        <4>2. GatewayClose = <<<<"close", l>>>> BY <2>2, <3>1 DEF GatewayClose
        <4>. QED BY <4>2, PairConcat DEF NewGateway
      <3>3. <<"close", l>> \in StepsOf("sync") /\ <<"close", l>> # UnlockStep
        BY DEF StepsOf, UnlockStep
      <3>4. Ordinary("sync", <<"close", l>>)
        BY <1>2, <3>1 DEF Ordinary, Begins, Ends, Untouched
      <3>5. \A t, u \in StepsOf("sync") :
               <<t, u>> \in Seq(StepsOf("sync")) /\ Len(<<t, u>>) = 2
               /\ \A i \in 1..Len(<<t, u>>) : <<t, u>>[i] \in {t, u}
        OBVIOUS
      <3>6. PICK steps : steps = <<<<"close", l>>, <<"newGateway", None>>>> OBVIOUS
      <3>7. /\ steps \in Seq(StepsOf("sync"))
            /\ \A i \in 1..Len(steps) : steps[i] \in {<<"close", l>>, <<"newGateway", None>>}
        BY <1>8, <3>3, <3>5, <3>6
      <3>8. \A i \in 1..Len(steps) : Ordinary("sync", steps[i]) /\ steps[i] # UnlockStep
        BY <1>8, <3>3, <3>4, <3>7
      <3>9. Fine("sync", steps) BY <1>0, <3>7, <3>8, FineAll
      <3>. QED BY <3>2, <3>6, <3>9
    <2>. QED BY <2>1, <2>2
  <1>. QED BY <1>1, <1>7, <1>9, <1>10, StartKept DEF SyncSIPInbound

LEMMA NewGatewayKept ==
  ASSUME IInv, NewSIPInboundGateway
  PROVE  IInv'
  <1>0. Typed /\ "sync" \in Actors BY DEF IInv, Actors
  <1>1. todo["sync"] # <<>> /\ todo["sync"][1] = <<"newGateway", None>>
    BY <1>0, StepFacts DEF NewSIPInboundGateway
  <1>2. UNCHANGED <<uac, stuck, modem, urcs, call, opMu, active, invite, ofGw, session, sessions, sipCall,
                    ofSession, closing, byModem, started, owner, races>>
    BY DEF NewSIPInboundGateway, workerVars, sessionVars, legVars
  <1>3. gw' \in Gateways /\ up' \in BOOLEAN
    <2>1. gw \in Gateways /\ up \in BOOLEAN BY <1>0 DEF Typed, TypeOK
    <2>2. CASE UNCHANGED <<gw, up>> BY <2>1, <2>2
    <2>3. CASE gw < MaxGateways /\ gw' = gw + 1 /\ up' = TRUE
      <3>1. gw' \in Gateways BY <2>1, <2>3, BoundsAssumption DEF Gateways
      <3>. QED BY <2>3, <3>1
    <2>. QED BY <2>2, <2>3 DEF NewSIPInboundGateway
  <1>4. TypeOK' BY <1>0, <1>2, <1>3 DEF Typed, TypeOK
  <1>5. Steady BY <1>0, <1>2, <1>4 DEF Steady, Typed, Shape
  <1>. QED BY <1>0, <1>1, <1>2, <1>5, NoStep DEF NewSIPInboundGateway

LEMMA UnreadyKept ==
  ASSUME IInv, SetUACReady
  PROVE  IInv'
  <1>0. Typed /\ "web" \in Actors BY DEF IInv, Actors
  <1>1. todo["web"] # <<>> /\ todo["web"][1] = <<"unready", None>>
    BY <1>0, StepFacts DEF SetUACReady
  <1>2. uac' \in {"ready", "unready", "gone"} BY DEF SetUACReady
  <1>3. Steady /\ \A s \in Sessions : sipCall'[s] \in {sipCall[s], None}
    BY <1>2, SteadyWorker DEF SetUACReady, IInv, Typed, TypeOK, Shape
  <1>. QED BY <1>0, <1>1, <1>3, NoStep DEF SetUACReady

-----------------------------------------------------------------------------
(* The steps of the modem, and those that mark, close and start legs.      *)

LEMMA StayKept ==
  ASSUME IInv, UNCHANGED <<todo, active, closing, sipCall, ofGw, byModem, races>>,
         TypeOK', call' \in CallStates, urcs' \in Seq(Lines)
  PROVE  IInv'
  <1>1. Typed' BY DEF IInv, Typed, Shape
  <1>2. ClaimsFirst' /\ Fresh'
    BY DEF IInv, Order, ClaimsFirst, Fresh, Waiting, Doing, Untouched, Begins, Ends
  <1>3. CloseOnce' /\ ActiveLegIsOpen'
    BY DEF IInv, Order, CloseOnce, ActiveLegIsOpen, Early, Unless
  <1>4. LoopSilent' /\ LockedSilent' /\ EndsSilently'
    BY DEF IInv, Order, LoopSilent, LockedSilent, EndsSilently, Early, Raced, Unless,
           Silent, SilentFor, UnlockStep
  <1>. QED BY <1>1, <1>2, <1>3, <1>4 DEF IInv, Order

LEMMA RemoteKept ==
  ASSUME IInv, RemoteAnswers \/ RemoteRings \/ RemoteEnds
  PROVE  IInv'
  <1>0. TypeOK /\ Shape /\ Typed BY DEF IInv, Typed
  <1>1. UNCHANGED <<up, stuck, call, opMu, gw, active, invite, ofGw, session, sessions, sipCall, ofSession,
                    closing, byModem, todo, owner, races>>
    BY DEF RemoteAnswers, RemoteRings, RemoteEnds, gatewayVars, sessionVars, legVars
  <1>7. UNCHANGED uac BY DEF RemoteAnswers, RemoteRings, RemoteEnds
  <1>2. urcs' \in Seq(Lines)
    <2>1. urcs \in Seq(Lines) BY <1>0 DEF Shape
    <2>2. "ACTIVE" \in Lines /\ "NO CARRIER" \in Lines /\ "RING" \in Lines /\ "CLCC" \in Lines
      BY DEF Lines
    <2>3. <<"RING", "CLCC">> \in Seq(Lines)
      <3>1. \A x, y \in Lines : <<x, y>> \in Seq(Lines) OBVIOUS
      <3>. QED BY <2>2, <3>1
    <2>4. \/ urcs' = Append(urcs, "ACTIVE") \/ urcs' = Append(urcs, "NO CARRIER")
          \/ urcs' = urcs \o <<"RING", "CLCC">>
      BY DEF RemoteAnswers, RemoteRings, RemoteEnds
    <2>5. \A x \in Lines : Append(urcs, x) \in Seq(Lines) BY <2>1
    <2>6. \A t \in Seq(Lines) : urcs \o t \in Seq(Lines) BY <2>1
    <2>. QED BY <2>2, <2>3, <2>4, <2>5, <2>6
  <1>3. \A i \in 1..Len(urcs') : urcs'[i] \in Lines BY <1>2
  <1>4. started' \in 0..MaxStarted
    BY <1>0, StartedTyped DEF RemoteAnswers, RemoteRings, RemoteEnds, TypeOK
  <1>5. modem' \in {"none", "calling", "ringing", "talking"}
    BY DEF RemoteAnswers, RemoteRings, RemoteEnds
  <1>6. TypeOK' BY <1>0, <1>1, <1>3, <1>4, <1>5, <1>7 DEF TypeOK, Lines
  <1>. QED BY <1>0, <1>1, <1>2, <1>6, StayKept DEF Shape

LEMMA ClosedKept ==
  ASSUME IInv, NEW a \in Actors, NEW l \in Legs, Closed(a, l)
  PROVE  IInv'
  <1> USE DEF IInv, Order
  <1>0. Typed /\ Doing(a, "closed", l) BY DEF Closed
  <1>1. todo[a] # <<>> /\ todo[a][1] = <<"closed", l>> /\ 1 \in 1..Len(todo[a])
    BY <1>0, StepFacts
  <1>2. closing[l] # "open" /\ ((\A g \in Gateways : active[g] # l) \/ Early)
    <2>1. todo[a][1] \in {"legEnded", "closed"} \X {l} BY <1>1
    <2>. QED BY <1>1, <2>1 DEF CloseOnce
  <1>3. Moved(a, <<>>) /\ Len(<<>>) = 0 /\ Len(<<>>) \in Nat
    <2>1. <<>> \in Seq(StepsOf(a)) OBVIOUS
    <2>2. Then(a, <<>>) BY DEF Closed
    <2>. QED BY <1>0, <1>1, <2>1, <2>2, ThenMoves
  <1>4. /\ UNCHANGED <<uac, up, stuck, modem, urcs, call, opMu, gw, active, invite, ofGw, session, sessions, sipCall,
                       ofSession, byModem, started, owner, races>>
        /\ closing' = [closing EXCEPT ![l] = "done"]
    BY DEF Closed, workerVars, gatewayVars, sessionVars
  <1>5. closing \in [Legs -> {"open", "running", "done"}] BY <1>0 DEF Typed, TypeOK
  <1>6. /\ closing' \in [Legs -> {"open", "running", "done"}]
        /\ closing'[l] = "done" /\ \A k \in Legs : k # l => closing'[k] = closing[k]
    BY <1>4, <1>5
  <1>7. Typed'
    <2>1. TypeOK' BY <1>0, <1>4, <1>6 DEF Typed, TypeOK
    <2>. QED BY <1>0, <1>3, <1>4, <2>1 DEF Typed, Shape, Moved
  <1>8. ClaimsFirst' /\ Fresh'
    <2>0. todo[a][1] \in Ends(l) BY <1>1 DEF Ends
    <2>1. ~Untouched(l) BY <1>1, <2>0 DEF Untouched
    <2>2. ASSUME NEW k \in Lined, Untouched(k)
          PROVE  /\ closing'[k] = "open" /\ \A g \in Gateways : active'[g] # k
                 /\ \A s \in Sessions : sipCall'[s] # k
      BY <1>4, <1>6, <2>1, <2>2 DEF Untouched, Lined, Legs
    <2>3. \A i \in 1..Len(<<>>) : FALSE BY <1>3
    <2>. QED BY <1>1, <1>3, <1>4, <2>2, <2>3, ClaimsKept
  <1>9. CloseOnce' /\ ActiveLegIsOpen'
    <2>0. Early => Early' BY <1>4, RacesKept
    <2>1. ClosesInOrder BY <1>2, <1>4, <1>6 DEF ClosesInOrder
    <2>2. LinesInOrder
      <3> SUFFICES ASSUME NEW g \in Gateways, active[g] # None, closing'[active[g]] = "done"
                   PROVE  closing[active[g]] = "done" \/ Early'
        BY <1>4 DEF LinesInOrder
      <3>1. active[g] \in Legs BY <1>0 DEF Typed, TypeOK
      <3>. QED BY <1>2, <1>6, <2>0, <3>1
    <2>3. StepsInOrder(<<>>) BY <1>3 DEF StepsInOrder
    <2>. QED BY <1>3, <1>4, <2>1, <2>2, <2>3, CloseMoves
  <1>10. LoopSilent' /\ LockedSilent' /\ EndsSilently'
    <2>1. \A i \in 1..Len(<<>>) : FALSE BY <1>3
    <2>. QED BY <1>3, <1>4, <2>1, SilentKept
  <1>. QED BY <1>7, <1>8, <1>9, <1>10

LEMMA CloseStepKept ==
  ASSUME IInv, NEW a \in Actors, NEW l \in Legs, Close(a, l)
  PROVE  IInv'
  <1> USE DEF IInv, Order
  <1>0. Typed /\ Doing(a, "close", l) BY DEF Close
  <1>1. todo[a] # <<>> /\ todo[a][1] = <<"close", l>> /\ 1 \in 1..Len(todo[a])
    BY <1>0, StepFacts
  <1>2. CASE closing[l] = "done" /\ Then(a, <<>>) /\ UNCHANGED <<closing, races>>
    <2>1. Steady /\ \A s \in Sessions : sipCall'[s] \in {sipCall[s], None}
      BY <1>2, SteadyWorker DEF Close, Typed, TypeOK, Shape, workerVars, legVars
    <2>. QED BY <1>1, <1>2, <2>1, NoStep
  <1>3. CASE /\ closing[l] = "open" /\ closing' = [closing EXCEPT ![l] = "running"]
             /\ Then(a, <<<<"legEnded", l>>>>)
             /\ Race(IF a # l /\ l \notin Dials /\ Starting(l) THEN {"early"} ELSE {})
    <2>0. PICK steps : steps = <<<<"legEnded", l>>>> OBVIOUS
    <2>1. <<"legEnded", l>> \in StepsOf(a) BY DEF StepsOf
    <2>2. /\ steps \in Seq(StepsOf(a)) /\ Len(steps) = 1 /\ Len(steps) \in Nat
          /\ \A i \in 1..Len(steps) : i = 1 /\ steps[i] = <<"legEnded", l>>
      BY <2>0, <2>1
    <2>3. Moved(a, steps) BY <1>0, <1>1, <1>3, <2>0, <2>2, ThenMoves
    <2>4. /\ UNCHANGED <<uac, up, stuck, modem, urcs, call, opMu, gw, active, invite, ofGw, session, sessions,
                         sipCall, ofSession, byModem, started, owner>>
          /\ races \subseteq races' /\ races' \subseteq races \cup {"early"}
      BY <1>3 DEF Close, workerVars, gatewayVars, sessionVars, Race
    <2>5. closing \in [Legs -> {"open", "running", "done"}] BY <1>0 DEF Typed, TypeOK
    <2>6. /\ closing' \in [Legs -> {"open", "running", "done"}]
          /\ closing'[l] = "running" /\ \A k \in Legs : k # l => closing'[k] = closing[k]
      BY <1>3, <2>5
    <2>7. Typed'
      <3>1. TypeOK' BY <1>0, <2>4, <2>6 DEF Typed, TypeOK
      <3>. QED BY <1>0, <2>3, <2>4, <3>1 DEF Typed, Shape, Moved
    <2>8. ClaimsFirst' /\ Fresh'
      <3>0. todo[a][1] \in Ends(l) BY <1>1 DEF Ends
      <3>1. ~Untouched(l) BY <1>1, <3>0 DEF Untouched
      <3>2. ASSUME NEW k \in Lined, Untouched(k)
            PROVE  /\ closing'[k] = "open" /\ \A g \in Gateways : active'[g] # k
                   /\ \A s \in Sessions : sipCall'[s] # k
                   /\ \A i \in 1..Len(steps) : steps[i] \notin Ends(k)
        BY <2>2, <2>4, <2>6, <3>1, <3>2 DEF Untouched, Lined, Legs, Ends
      <3>3. \A k \in Lined : \A i \in 1..Len(steps) : steps[i] \notin Begins(k)
        BY <2>2 DEF Begins
      <3>. QED BY <1>1, <2>2, <2>3, <2>4, <3>2, <3>3, ClaimsKept
    <2>9. ASSUME NEW b \in Actors, NEW i \in 1..Len(todo[b]), todo[b][i] = <<"claimLine", l>>
          PROVE  Early'
      <3>1. /\ i = 1 /\ l \in Lined /\ (l \in Invites => b = l)
        <4>1. todo[b][i] \in StepsOf(b) BY <1>0 DEF Typed, Shape
        <4>2. l \in Rings \cup ({b} \cap Invites) BY <2>9, <4>1 DEF StepsOf
        <4>3. l \in Lined /\ (l \in Invites => b = l) BY <4>2, NamesAssumption DEF Lined
        <4>4. todo[b][i] \in Begins(l) BY <2>9 DEF Begins
        <4>. QED BY <4>3, <4>4 DEF ClaimsFirst
      <3>2. b # a BY <1>1, <2>9, <3>1
      <3>3. l \in Rings => todo[l] = <<>>
        <4>1. todo[b][i] \in Begins(l) BY <2>9 DEF Begins
        <4>. QED BY <3>1, <4>1 DEF ClaimsFirst
      <3>4. a # l /\ l \notin Dials
        BY <1>1, <3>1, <3>2, <3>3, NamesAssumption DEF Lined
      <3>5. Starting(l) BY <2>9 DEF Starting
      <3>. QED BY <1>3, <3>4, <3>5 DEF Race, Early, Unless
    <2>10. CloseOnce' /\ ActiveLegIsOpen'
      <3>1. ClosesInOrder BY <2>4, <2>6, <2>9 DEF ClosesInOrder
      <3>2. LinesInOrder
        <4> SUFFICES ASSUME NEW g \in Gateways, active[g] # None, closing'[active[g]] = "done"
                     PROVE  closing[active[g]] = "done"
          BY <2>4 DEF LinesInOrder
        <4>1. active[g] \in Legs BY <1>0 DEF Typed, TypeOK
        <4>. QED BY <2>6, <4>1
      <3>3. StepsInOrder(steps) BY <2>2, <2>6 DEF StepsInOrder
      <3>. QED BY <2>3, <2>4, <3>1, <3>2, <3>3, CloseMoves
    <2>11. LoopSilent' /\ LockedSilent' /\ EndsSilently'
      <3>1. Guarded(a) => Raced' \/ Silent(<<"legEnded", l>>)
        <4>1. Silent(<<"close", l>>) => Silent(<<"legEnded", l>>) BY DEF Silent, SilentFor
        <4>2. Raced => Raced' BY <2>4, RacesKept
        <4>. QED BY <1>1, <4>1, <4>2, GuardedHead
      <3>2. \A n \in 1..Len(steps) : steps[n][1] # "closed" /\ steps[n] # UnlockStep
        BY <2>2 DEF UnlockStep
      <3>. QED BY <1>1, <2>2, <2>3, <2>4, <3>1, <3>2, SilentKept
    <2>. QED BY <2>7, <2>8, <2>10, <2>11
  <1>. QED BY <1>2, <1>3 DEF Close

LEMMA EndLegKept ==
  ASSUME IInv, NEW a \in Actors, NEW l \in Legs, EndLegFromModem(a, l)
  PROVE  IInv'
  <1> USE DEF IInv, Order
  <1>0. Typed /\ Doing(a, "endLeg", l) BY DEF EndLegFromModem
  <1>1. todo[a] # <<>> /\ todo[a][1] = <<"endLeg", l>> /\ 1 \in 1..Len(todo[a])
    BY <1>0, StepFacts
  <1>2. CASE active[ofGw[l]] # l
    <2>1. Then(a, <<<<"endSession", None>>>>) /\ UNCHANGED <<byModem, invite>>
      BY <1>2 DEF EndLegFromModem
    <2>2. Steady /\ \A s \in Sessions : sipCall'[s] \in {sipCall[s], None}
      BY <2>1, SteadyWorker DEF EndLegFromModem, Typed, TypeOK, Shape, workerVars, gatewayVars, legVars
    <2>3. <<"endSession", None>> \in StepsOf(a) BY DEF StepsOf
    <2>4. Ordinary(a, <<"endSession", None>>) /\ Silent(<<"endSession", None>>)
      BY DEF Ordinary, Begins, Ends, Silent, SilentFor
    <2>. QED BY <1>1, <2>1, <2>2, <2>3, <2>4, OneStep
  <1>3. CASE active[ofGw[l]] = l
    <2>0. ofGw[l] \in Gateways
      <3>1. ofGw[l] # None BY <1>0, <1>1 DEF CloseOnce
      <3>2. ofGw \in [Legs -> Gateways \cup {None}] BY <1>0 DEF Typed, TypeOK
      <3>. QED BY <3>1, <3>2
    <2>1. PICK steps : /\ Then(a, steps) /\ (steps = <<>> \/ steps = <<<<"close", l>>>>)
      BY <1>3 DEF EndLegFromModem
    <2>2. <<"close", l>> \in StepsOf(a) BY DEF StepsOf
    <2>3. /\ steps \in Seq(StepsOf(a)) /\ Len(steps) \in Nat
          /\ \A i \in 1..Len(steps) : i = 1 /\ steps[i] = <<"close", l>>
      <3>1. CASE steps = <<>> BY <3>1
      <3>2. CASE steps = <<<<"close", l>>>> BY <2>2, <3>2
      <3>. QED BY <2>1, <3>1, <3>2
    <2>4. Moved(a, steps) BY <1>0, <1>1, <2>1, <2>3, ThenMoves
    <2>5. /\ UNCHANGED <<uac, up, stuck, modem, urcs, call, opMu, gw, active, ofGw, session, sessions, sipCall,
                         ofSession, closing, started, owner, races>>
          /\ byModem' = byModem \cup {l}
      BY <1>3 DEF EndLegFromModem, workerVars, sessionVars
    <2>6. Typed'
      <3>1. invite' \in [Legs -> {"none", "armed", "cancelled"}]
        BY <1>0, <1>3 DEF EndLegFromModem, Typed, TypeOK
      <3>2. byModem' \subseteq Legs BY <1>0, <2>5 DEF Typed, TypeOK
      <3>3. TypeOK' BY <1>0, <2>5, <3>1, <3>2 DEF Typed, TypeOK
      <3>. QED BY <1>0, <2>4, <2>5, <3>3 DEF Typed, Shape, Moved
    <2>7. ClaimsFirst' /\ Fresh'
      <3>1. ~Untouched(l) BY <1>3, <2>0 DEF Untouched
      <3>2. ASSUME NEW k \in Lined, Untouched(k)
            PROVE  /\ closing'[k] = "open" /\ \A g \in Gateways : active'[g] # k
                   /\ \A s \in Sessions : sipCall'[s] # k
                   /\ \A i \in 1..Len(steps) : steps[i] \notin Ends(k)
        BY <2>3, <2>5, <3>1, <3>2 DEF Untouched, Ends
      <3>3. \A k \in Lined : \A i \in 1..Len(steps) : steps[i] \notin Begins(k)
        BY <2>3 DEF Begins
      <3>. QED BY <1>1, <2>3, <2>4, <2>5, <3>2, <3>3, ClaimsKept
    <2>8. CloseOnce' /\ ActiveLegIsOpen'
      <3>1. \A i \in 1..Len(steps) : steps[i][1] = "close" BY <2>3
      <3>2. \A k \in Legs : \A i \in 1..Len(steps) : steps[i] # <<"endLeg", k>> BY <2>3
      <3>. QED BY <2>4, <2>5, <3>1, <3>2, CloseKept
    <2>9. LoopSilent' /\ LockedSilent' /\ EndsSilently'
      <3>1. SilentFor(byModem', <<"close", l>>) BY <2>5 DEF SilentFor
      <3>2. \A i \in 1..Len(steps) : SilentFor(byModem', steps[i]) /\ \A k : steps[i] # <<"closed", k>>
        BY <2>3, <3>1
      <3>3. \A k \in byModem' \ byModem, b \in Actors : \A n \in 1..Len(todo[b]) :
               todo[b][n] = <<"closed", k>> => Early
        BY <1>3, <2>0, <2>5 DEF CloseOnce
      <3>4. \A n \in 1..Len(steps) : \A i \in 1..n : i \in 1..Len(steps) BY <2>3
      <3>5. byModem \subseteq byModem' /\ races \subseteq races' BY <2>5
      <3>6. todo[a][1][1] # "clearSip" BY <1>1
      <3>. QED BY <2>3, <2>4, <3>2, <3>3, <3>4, <3>5, <3>6, SilentMoves
    <2>. QED BY <2>6, <2>7, <2>8, <2>9
  <1>. QED BY <1>2, <1>3

LEMMA EndSteps ==
  ASSUME NEW S, NEW x \in S, NEW y \in S, NEW z \in S
  PROVE  /\ <<x>> \o <<>> \o <<z>> \in Seq(S) /\ Len(<<x>> \o <<>> \o <<z>>) = 2
         /\ (<<x>> \o <<>> \o <<z>>)[1] = x /\ (<<x>> \o <<>> \o <<z>>)[2] = z
         /\ <<x>> \o <<y>> \o <<z>> \in Seq(S) /\ Len(<<x>> \o <<y>> \o <<z>>) = 3
         /\ (<<x>> \o <<y>> \o <<z>>)[1] = x /\ (<<x>> \o <<y>> \o <<z>>)[2] = y
         /\ (<<x>> \o <<y>> \o <<z>>)[3] = z
  OBVIOUS

LEMMA HandleLegEndedKept ==
  ASSUME IInv, NEW a \in Actors, NEW l \in Legs, HandleLegEnded(a, l)
  PROVE  IInv'
  <1> USE DEF IInv, Order
  <1> DEFINE quiet == l \in byModem \cup Dials
             c == <<"clearSip", l>>  h == <<"hangup", None>>  d == <<"closed", l>>
  <1>0. Typed /\ Doing(a, "legEnded", l) BY DEF HandleLegEnded
  <1>1. todo[a] # <<>> /\ todo[a][1] = <<"legEnded", l>> /\ 1 \in 1..Len(todo[a])
    BY <1>0, StepFacts
  <1>2. c \in StepsOf(a) /\ h \in StepsOf(a) /\ d \in StepsOf(a) BY DEF StepsOf
  <1>3. PICK steps : /\ Then(a, steps)
                     /\ steps = <<c>> \o (IF quiet THEN <<>> ELSE <<h>>) \o <<d>>
    BY DEF HandleLegEnded
  <1> HIDE DEF c, h, d
  <1>4. /\ steps \in Seq(StepsOf(a)) /\ Len(steps) \in Nat
        /\ quiet => Len(steps) = 2 /\ steps[1] = c /\ steps[2] = d
        /\ ~quiet => Len(steps) = 3 /\ steps[1] = c /\ steps[2] = h /\ steps[3] = d
    BY <1>2, <1>3, EndSteps
  <1> HIDE DEF quiet
  <1>5. \A i \in 1..Len(steps) : \/ steps[i] = c /\ i = 1
                                 \/ ~quiet /\ steps[i] = h /\ i = 2
                                 \/ steps[i] = d /\ i = Len(steps)
    <2>1. CASE quiet
      <3>0. Len(steps) = 2 BY <1>4, <2>1
      <3>1. \A i \in 1..Len(steps) : i = 1 \/ i = 2 BY <3>0
      <3>. QED BY <1>4, <2>1, <3>1
    <2>2. CASE ~quiet
      <3>0. Len(steps) = 3 BY <1>4, <2>2
      <3>1. \A i \in 1..Len(steps) : i = 1 \/ i = 2 \/ i = 3 BY <3>0
      <3>. QED BY <1>4, <2>2, <3>1
    <2>. QED BY <2>1, <2>2
  <1>6. Moved(a, steps) BY <1>0, <1>1, <1>3, <1>4, ThenMoves
  <1>7. /\ UNCHANGED <<uac, up, stuck, modem, urcs, call, opMu, gw, ofGw, session, sessions, sipCall,
                       ofSession, closing, byModem, started, owner, races>>
        /\ active' = [g \in Gateways |-> IF active[g] = l THEN None ELSE active[g]]
    BY DEF HandleLegEnded, workerVars, sessionVars, legVars
  <1>8. None # l BY NamesAssumption DEF Actors
  <1>9. /\ active' = [g \in Gateways |-> active'[g]]
        /\ \A g \in Gateways : active'[g] \in {active[g], None} /\ active'[g] # l
    BY <1>7, <1>8
  <1>10. Typed'
    <2>1. invite' \in [Legs -> {"none", "armed", "cancelled"}]
      BY <1>0 DEF HandleLegEnded, Typed, TypeOK
    <2>2. TypeOK' BY <1>0, <1>7, <1>9, <2>1 DEF Typed, TypeOK
    <2>. QED BY <1>0, <1>6, <1>7, <1>9, <2>2 DEF Typed, Shape, Moved
  <1>11. ClaimsFirst' /\ Fresh'
    <2>0. todo[a][1] \in Ends(l) BY <1>1 DEF Ends
    <2>1. ~Untouched(l) BY <1>1, <2>0 DEF Untouched
    <2>2. ASSUME NEW k \in Lined, Untouched(k)
          PROVE  \A i \in 1..Len(steps) : steps[i] \notin Ends(k)
      BY <1>5, <2>1, <2>2 DEF Ends, c, h, d
    <2>3. ASSUME NEW k \in Lined, Untouched(k)
          PROVE  /\ closing'[k] = "open" /\ \A g \in Gateways : active'[g] # k
                 /\ \A s \in Sessions : sipCall'[s] # k
      <3>1. k # None BY NamesAssumption DEF Lined, Legs, Actors
      <3>. QED BY <1>7, <1>9, <2>3, <3>1 DEF Untouched
    <2>4. \A k \in Lined : \A i \in 1..Len(steps) : steps[i] \notin Begins(k)
      BY <1>5 DEF Begins, c, h, d
    <2>. QED BY <1>1, <1>4, <1>6, <1>7, <2>2, <2>3, <2>4, ClaimsKept
  <1>12. CloseOnce' /\ ActiveLegIsOpen'
    <2>0. closing[l] # "open"
      <3>1. todo[a][1] \in {"legEnded", "closed"} \X {l} BY <1>1
      <3>. QED BY <1>1, <3>1 DEF CloseOnce
    <2>1. ClosesInOrder BY <1>7 DEF ClosesInOrder
    <2>2. LinesInOrder BY <1>7, <1>9 DEF LinesInOrder
    <2>3. StepsInOrder(steps)
      <3>1. ASSUME NEW k \in Legs, NEW i \in 1..Len(steps)
            PROVE  /\ steps[i] \in {"legEnded", "closed"} \X {k} => k = l
                   /\ steps[i] = <<"closed", k>> => k = l
                   /\ steps[i] # <<"claimLine", k>> /\ steps[i] # <<"endLeg", k>>
        BY <1>5 DEF c, h, d
      <3>. QED BY <1>7, <1>9, <2>0, <3>1 DEF StepsInOrder
    <2>. QED BY <1>6, <1>7, <2>1, <2>2, <2>3, CloseMoves
  <1>13. LoopSilent' /\ LockedSilent' /\ EndsSilently'
    <2>1. \A i \in 1..Len(steps) : steps[i] # UnlockStep BY <1>5 DEF c, h, d, UnlockStep
    <2>2. Guarded(a) => Raced' \/ \A i \in 1..Len(steps) : SilentFor(byModem', steps[i])
      <3>1. Silent(<<"legEnded", l>>) => quiet BY DEF Silent, SilentFor, quiet
      <3>2. SilentFor(byModem', c) /\ SilentFor(byModem', d) BY DEF SilentFor, c, d
      <3>3. Raced => Raced' BY <1>7, RacesKept
      <3>. QED BY <1>1, <1>5, <3>1, <3>2, <3>3, GuardedHead
    <2>3. ASSUME NEW k \in byModem' \cup Dials, NEW n \in 1..Len(steps), NEW i \in 1..n,
                 steps[n] = <<"closed", k>>
          PROVE  i = n \/ steps[i] = <<"clearSip", k>>
      <3>1. k = l /\ n = Len(steps) BY <1>5, <2>3 DEF c, h, d
      <3>2. quiet BY <1>7, <3>1 DEF quiet
      <3>. QED BY <1>4, <3>1, <3>2 DEF c
    <2>4. byModem' = byModem /\ races' = races BY <1>7
    <2>5. todo[a][1][1] # "clearSip" BY <1>1
    <2>. QED BY <1>4, <1>6, <2>1, <2>2, <2>3, <2>4, <2>5, SilentMoves
  <1>. QED BY <1>10, <1>11, <1>12, <1>13

-----------------------------------------------------------------------------
(* The claims.                                                             *)

\* A leg is made for the first time, and claims its line.
LEMMA NewClaim ==
  ASSUME IInv, NEW a \in Actors, NEW l \in Lined, ofGw[l] = None, NEW g \in Gateways,
         Moved(a, <<<<"claim", l>>>>), ofGw' = [ofGw EXCEPT ![l] = g],
         UNCHANGED <<closing, active, sipCall>>,
         todo[a] # <<>> => \A k \in Lined : todo[a][1] \notin Begins(k),
         l \in Invites => a = l, l \in Rings => a # l, a \in Lined => a = l \/ todo[a] # <<>>
  PROVE  ClaimsFirst' /\ Fresh'
  <1> USE DEF IInv, Order
  <1> DEFINE steps == <<<<"claim", l>>>>
  <1>0. /\ l \in Legs /\ l \in Actors /\ todo[l] = <<>> /\ Untouched(l)
        /\ ofGw'[l] = g /\ g # None /\ \A k \in Legs : k # l => ofGw'[k] = ofGw[k]
    BY NamesAssumption DEF Fresh, Waiting, Lined, Legs, Actors, Typed, TypeOK
  <1>1. Len(steps) = 1 /\ steps[1] = <<"claim", l>> /\ \A i \in 1..Len(steps) : i = 1 OBVIOUS
  <1>2. todo[a] \in Seq(StepsOf(a)) BY DEF Typed, Shape
  <1>3. \A i \in 1..Len(todo'[a]) : \/ i = 1 /\ todo'[a][i] = <<"claim", l>>
                                    \/ \E k \in 2..Len(todo[a]) : todo'[a][i] = todo[a][k]
    BY <1>1 DEF Moved, Moves
  <1> HIDE DEF steps
  <1>4. \A k \in 2..Len(todo[a]) : k \in 1..Len(todo[a]) /\ k # 1 BY <1>2
  <1>5. \A k \in Lined, b \in Actors : \A i \in 1..Len(todo'[b]) :
           todo'[b][i] \in Begins(k) => \/ b = a /\ i = 1 /\ k = l
                                        \/ b # a /\ todo'[b] = todo[b] /\ k # l
    <2> SUFFICES ASSUME NEW k \in Lined, NEW b \in Actors, NEW i \in 1..Len(todo'[b]),
                        todo'[b][i] \in Begins(k)
                 PROVE  \/ b = a /\ i = 1 /\ k = l
                        \/ b # a /\ todo'[b] = todo[b] /\ k # l
      OBVIOUS
    <2>1. CASE b # a
      <3>1. todo'[b] = todo[b] BY <2>1 DEF Moved
      <3>. QED BY <2>1, <3>1 DEF ClaimsFirst
    <2>2. CASE b = a
      <3>1. ~\E j \in 2..Len(todo[a]) : todo'[a][i] = todo[a][j]
        BY <1>4, <2>2 DEF ClaimsFirst
      <3>2. i = 1 /\ todo'[a][i] = <<"claim", l>> BY <1>3, <2>2, <3>1
      <3>. QED BY <2>2, <3>2 DEF Begins
    <2>. QED BY <2>1, <2>2
  <1>6. ClaimsFirst'
    <2> SUFFICES ASSUME NEW k \in Lined, NEW b \in Actors, NEW i \in 1..Len(todo'[b]),
                        todo'[b][i] \in Begins(k)
                 PROVE  /\ i = 1
                        /\ ofGw'[k] # None
                        /\ k \in Rings => b # k /\ todo'[k] = <<>>
                        /\ \A e \in Actors : \A j \in 1..Len(todo'[e]) :
                              todo'[e][j] \in Begins(k) => b = e
      BY DEF ClaimsFirst, Begins
    <2>0. \A e \in Actors : \A j \in 1..Len(todo'[e]) : todo'[e][j] \in Begins(k) =>
             \/ e = a /\ k = l
             \/ e # a /\ todo'[e] = todo[e] /\ k # l
      BY <1>5
    <2>1. CASE b = a /\ i = 1 /\ k = l
      BY <1>0, <2>0, <2>1 DEF Moved
    <2>2. CASE b # a /\ todo'[b] = todo[b] /\ k # l
      <3>1. /\ i = 1 /\ ofGw[k] # None /\ (k \in Rings => b # k /\ todo[k] = <<>>)
            /\ \A e \in Actors : \A j \in 1..Len(todo[e]) : todo[e][j] \in Begins(k) => b = e
        BY <2>2 DEF ClaimsFirst
      <3>2. k \in Rings => k # a BY <2>2, <3>1
      <3>3. k \in Actors /\ k \in Legs BY DEF Lined, Legs, Actors
      <3>4. k \in Rings => todo'[k] = <<>> BY <3>1, <3>2, <3>3 DEF Moved
      <3>. QED BY <1>0, <2>0, <2>2, <3>1, <3>3, <3>4
    <2>. QED BY <1>5, <2>1, <2>2
  <1>7. ASSUME NEW k \in Lined, Waiting(k)' PROVE Untouched(k)'
    <2>0. k \in Legs BY DEF Lined, Legs
    <2>1. Untouched(k)
      <3>1. CASE k = l BY <1>0, <3>1
      <3>2. CASE k # l /\ ofGw'[k] = None BY <1>0, <2>0, <3>2 DEF Fresh, Waiting
      <3>3. ASSUME k # l, NEW b \in Actors, Doing(b, "claim", k)' PROVE Untouched(k)
        <4>1. todo'[b] # <<>> /\ Head(todo'[b]) = <<"claim", k>> BY <3>3 DEF Doing
        <4>2. todo'[b] \in Seq(StepsOf(b)) BY DEF Moved, Typed, Shape
        <4>3. 1 \in 1..Len(todo'[b]) /\ todo'[b][1] = <<"claim", k>> BY <4>1, <4>2
        <4>4. <<"claim", k>> \in Begins(k) BY DEF Begins
        <4>5. todo'[b] = todo[b] BY <1>5, <3>3, <4>3, <4>4
        <4>. QED BY <4>1, <4>5 DEF Fresh, Waiting, Doing
      <3>. QED BY <1>7, <3>1, <3>2, <3>3 DEF Waiting
    <2>2. \A b \in Actors : \A i \in 1..Len(todo'[b]) : todo'[b][i] \notin Ends(k)
      <3> SUFFICES ASSUME NEW b \in Actors, NEW i \in 1..Len(todo'[b]), todo'[b][i] \in Ends(k)
                   PROVE  FALSE
        OBVIOUS
      <3>1. CASE b # a BY <2>1, <3>1 DEF Moved, Untouched
      <3>2. CASE b = a
        <4>1. <<"claim", l>> \notin Ends(k) BY DEF Ends
        <4>. QED BY <1>3, <1>4, <2>1, <3>2, <4>1 DEF Untouched
      <3>. QED BY <3>1, <3>2
    <2>. QED BY <2>1, <2>2 DEF Untouched, Ends
  <1>8. ASSUME NEW k \in Lined, ofGw'[k] = None PROVE todo'[k] = <<>>
    <2>1. k # l /\ k \in Legs /\ k \in Actors BY <1>0, <1>8 DEF Lined, Legs, Actors
    <2>2. ofGw[k] = None BY <1>0, <1>8, <2>1
    <2>3. todo[k] = <<>> BY <2>2 DEF Fresh
    <2>. QED BY <2>1, <2>3 DEF Moved
  <1>9. Fresh' BY <1>7, <1>8 DEF Fresh
  <1>. QED BY <1>6, <1>9

\* What a new claim does to the rest.
LEMMA NewClaimKept ==
  ASSUME IInv, NEW a \in Actors, NEW l \in Lined, ofGw[l] = None, gw \in Gateways,
         Moved(a, <<<<"claim", l>>>>), ofGw' = [ofGw EXCEPT ![l] = gw],
         ofSession' = [ofSession EXCEPT ![l] = Ensured], EnsureSession,
         UNCHANGED <<uac, up, stuck, modem, urcs, call, opMu, gw, active, invite, sipCall, closing, byModem, owner>>,
         races \subseteq races', races' \subseteq races \cup {"late"}, started' \in 0..MaxStarted,
         todo[a] # <<>> => \A k \in Lined : todo[a][1] \notin Begins(k),
         todo[a] # <<>> => todo[a][1][1] # "clearSip",
         l \in Invites => a = l, l \in Rings => todo[a] # <<>>
  PROVE  IInv'
  <1> USE DEF IInv, Order
  <1>0. /\ Typed /\ l \in Legs /\ l \in Actors /\ todo[l] = <<>> /\ gw # None
        /\ ofGw'[l] = gw /\ \A k \in Legs : k # l => ofGw'[k] = ofGw[k]
    BY NamesAssumption DEF Fresh, Lined, Legs, Actors, Typed, TypeOK
  <1>1. PICK steps : steps = <<<<"claim", l>>>> OBVIOUS
  <1>2. /\ Len(steps) = 1 /\ Len(steps) \in Nat
        /\ \A i \in 1..Len(steps) : i = 1 /\ steps[i] = <<"claim", l>>
    BY <1>1
  <1>3. Moved(a, steps) BY <1>1
  <1>4. Typed'
    <2>1. session' \in Sessions \cup {None} /\ sessions' \in 0..MaxSessions /\ Ensured \in Sessions
      BY <1>0, EnsureTyped
    <2>2. ofSession' \in [Legs -> Sessions \cup {None}] BY <1>0, <2>1 DEF Typed, TypeOK
    <2>3. ofGw' \in [Legs -> Gateways \cup {None}] BY <1>0 DEF Typed, TypeOK
    <2>4. \A g \in Gateways : active'[g] \in {k \in Legs : ofGw'[k] = g} \cup {None}
      <3> SUFFICES ASSUME NEW g \in Gateways, active[g] # None
                   PROVE  active[g] \in Legs /\ ofGw'[active[g]] = g
        OBVIOUS
      <3>1. active[g] \in Legs /\ ofGw[active[g]] = g BY <1>0 DEF Typed, TypeOK
      <3>. QED BY <1>0, <3>1, NamesAssumption
    <2>5. races' \subseteq {"early", "gap", "busy", "late", "timeout"}
      BY <1>0 DEF Typed, TypeOK
    <2>6. TypeOK' BY <1>0, <2>1, <2>2, <2>3, <2>4, <2>5 DEF Typed, TypeOK
    <2>. QED BY <1>0, <1>3, <2>6 DEF Typed, Shape, Moved
  <1>5. ClaimsFirst' /\ Fresh'
    <2>1. l \in Rings => a # l BY <1>0
    <2>2. a \in Lined => a = l \/ todo[a] # <<>> BY DEF Lined
    <2>. QED BY <2>1, <2>2, NewClaim
  <1>6. CloseOnce' /\ ActiveLegIsOpen'
    <2>1. \A i \in 1..Len(steps) : steps[i][1] \notin {"legEnded", "closed", "claimLine"}
          /\ \A k \in Legs : steps[i] # <<"endLeg", k>>
      BY <1>2
    <2>2. \A k \in Legs : ofGw[k] # None => ofGw'[k] = ofGw[k] BY <1>0
    <2>3. \A h \in Gateways : active'[h] \in {active[h], None} OBVIOUS
    <2>4. \A k \in Legs : \A i \in 1..Len(steps) : steps[i] = <<"endLeg", k>> => ofGw'[k] # None
      BY <2>1
    <2>5. UNCHANGED closing /\ races \subseteq races' OBVIOUS
    <2>. HIDE DEF IInv, Order
    <2>6. ClosesCalmly(a, steps)
      BY <1>3, <2>1, <2>2, <2>3, <2>4, <2>5 DEF ClosesCalmly
    <2>. QED BY <2>6, CalmlyKept
  <1>7. LoopSilent' /\ LockedSilent' /\ EndsSilently'
    <2>1. \A n \in 1..Len(steps) : steps[n][1] # "closed" /\ steps[n] # UnlockStep
      BY <1>2 DEF UnlockStep
    <2>2. l \in Rings => \A i \in 1..Len(steps) : Silent(steps[i])
      BY <1>2 DEF Silent, SilentFor
    <2>3. l \in Invites => ~Guarded(a)
      <3>1. l # Loop /\ Len(<<>>) = 0 BY <1>0, NamesAssumption
      <3>. QED BY <1>0, <3>1 DEF Guarded
    <2>. QED BY <1>2, <1>3, <2>1, <2>2, <2>3, SilentKept DEF Lined
  <1>. QED BY <1>4, <1>5, <1>6, <1>7

LEMMA OnInviteKept ==
  ASSUME IInv, NEW i \in Invites, OnInvite(i)
  PROVE  IInv'
  <1>0. Typed /\ i \in Actors /\ i \in Lined /\ gw \in Gateways
    BY DEF IInv, Typed, TypeOK, Actors, Legs, Lined
  <1>1. ofGw[i] = None /\ i \notin Rings BY NamesAssumption DEF OnInvite
  <1>2. todo[i] = <<>> BY <1>0, <1>1 DEF IInv, Order, Fresh
  <1>3. Moved(i, <<<<"claim", i>>>>)
    <2>1. <<"claim", i>> \in StepsOf(i) BY DEF StepsOf
    <2>2. <<<<"claim", i>>>> \in Seq(StepsOf(i)) BY <2>1
    <2>. QED BY <1>0, <2>2, StartMoves DEF OnInvite
  <1>4. started' \in 0..MaxStarted BY <1>0, StartedTyped DEF OnInvite
  <1>5. UNCHANGED <<uac, up, stuck, modem, urcs, call, opMu, gw, active, invite, sipCall, closing, byModem, owner, races>>
    BY DEF OnInvite, workerVars, legVars
  <1>6. ofGw' = [ofGw EXCEPT ![i] = gw] /\ ofSession' = [ofSession EXCEPT ![i] = Ensured] /\ EnsureSession
    BY DEF OnInvite
  <1>. QED BY <1>0, <1>1, <1>2, <1>3, <1>4, <1>5, <1>6, NewClaimKept

LEMMA SyncModemKept ==
  ASSUME IInv, NEW a \in Actors, NEW x, SyncModemState(a, x)
  PROVE  IInv'
  <1>0. Typed /\ Doing(a, "sync", x) BY DEF IInv, SyncModemState
  <1>1. todo[a] # <<>> /\ todo[a][1] = <<"sync", x>> BY <1>0, StepFacts
  <1>2. gw \in Gateways BY <1>0 DEF Typed, TypeOK
  <1>3. /\ UNCHANGED <<uac, up, stuck, modem, urcs, call, opMu, gw, active, invite, closing, byModem, started, owner>>
        /\ races \subseteq races' /\ races' \subseteq races \cup {"late"}
    BY DEF SyncModemState, StartModemIncomingInvite, workerVars, sessionVars, legVars, Race
  <1>4. CASE UNCHANGED <<ofGw, sessionVars>>
    <2>1. Steady /\ \A s \in Sessions : sipCall'[s] \in {sipCall[s], None}
      BY <1>3, <1>4, SteadyWorker DEF IInv, Typed, TypeOK, Shape, gatewayVars, legVars
    <2>2. CASE Then(a, <<>>) BY <1>1, <2>1, <2>2, NoStep
    <2>3. CASE Then(a, <<<<"endSession", None>>>>)
      <3>1. <<"endSession", None>> \in StepsOf(a) BY DEF StepsOf
      <3>2. Ordinary(a, <<"endSession", None>>) /\ Silent(<<"endSession", None>>)
        BY DEF Ordinary, Begins, Ends, Silent, SilentFor
      <3>. QED BY <1>1, <2>1, <2>3, <3>1, <3>2, OneStep
    <2>4. ASSUME NEW l, l = active[gw], l # None, Then(a, <<<<"endLeg", l>>>>) PROVE IInv'
      <3>1. l \in Legs /\ ofGw[l] = gw BY <1>0, <1>2, <2>4 DEF Typed, TypeOK
      <3>2. <<"endLeg", l>> \in StepsOf(a) BY <3>1 DEF StepsOf
      <3>3. Ordinary(a, <<"endLeg", l>>)
        BY <1>2, <2>4, <3>1, NamesAssumption DEF Ordinary, Begins, Ends, Untouched
      <3>4. Silent(<<"endLeg", l>>) BY DEF Silent, SilentFor
      <3>. QED BY <1>1, <2>1, <2>4, <3>2, <3>3, <3>4, OneStep
    <2>5. \/ Then(a, <<>>) \/ Then(a, <<<<"endSession", None>>>>)
          \/ active[gw] # None /\ Then(a, <<<<"endLeg", active[gw]>>>>)
          \/ \E m \in Rings : ofGw[m] = None /\ ofGw' = [ofGw EXCEPT ![m] = gw]
      BY DEF SyncModemState, StartModemIncomingInvite
    <2>6. ASSUME NEW m \in Rings, ofGw[m] = None, ofGw' = [ofGw EXCEPT ![m] = gw] PROVE FALSE
      <3>1. m \in Legs /\ ofGw \in [Legs -> Gateways \cup {None}] BY <1>0 DEF Legs, Typed, TypeOK
      <3>2. ofGw'[m] = gw BY <2>6, <3>1
      <3>. QED BY <1>2, <1>4, <2>6, <3>2, NamesAssumption
    <2>. QED BY <2>2, <2>3, <2>4, <2>5, <2>6
  <1>5. CASE /\ StartModemIncomingInvite(a) /\ \E m \in Rings : ofGw[m] = None
    <2>1. PICK m \in Rings : m = CHOOSE k \in Rings : ofGw[k] = None BY <1>5
    <2>2. ofGw[m] = None BY <1>5, <2>1
    <2>3. /\ Then(a, <<<<"claim", m>>>>) /\ ofGw' = [ofGw EXCEPT ![m] = gw] /\ UNCHANGED sipCall
          /\ ofSession' = [ofSession EXCEPT ![m] = Ensured] /\ EnsureSession
      BY <1>5, <2>1 DEF StartModemIncomingInvite
    <2>4. Moved(a, <<<<"claim", m>>>>)
      <3>1. <<"claim", m>> \in StepsOf(a) BY DEF StepsOf
      <3>2. <<<<"claim", m>>>> \in Seq(StepsOf(a)) BY <3>1
      <3>. QED BY <1>0, <1>1, <2>3, <3>2, ThenMoves
    <2>5. m \in Lined /\ m \notin Invites BY NamesAssumption DEF Lined
    <2>6. (\A k \in Lined : todo[a][1] \notin Begins(k)) /\ todo[a][1][1] # "clearSip"
      BY <1>1 DEF Begins
    <2>7. started' \in 0..MaxStarted BY <1>0, <1>3 DEF Typed, TypeOK
    <2>. QED BY <1>1, <1>2, <1>3, <2>2, <2>3, <2>4, <2>5, <2>6, <2>7, NewClaimKept
  <1>. QED BY <1>4, <1>5 DEF SyncModemState

\* The claim goes on from the session's call to the line.
LEMMA ClaimGoesOn ==
  ASSUME IInv, NEW a \in Actors, NEW l \in Lined, todo[a] # <<>>, todo[a][1] = <<"claim", l>>,
         Moved(a, <<<<"claimLine", l>>>>), UNCHANGED <<ofGw, closing, active>>,
         \A s \in Sessions : sipCall'[s] \in {sipCall[s], l}
  PROVE  ClaimsFirst' /\ Fresh'
  <1> USE DEF IInv, Order
  <1> DEFINE steps == <<<<"claimLine", l>>>>
  <1>1. Len(steps) = 1 /\ steps[1] = <<"claimLine", l>> /\ \A i \in 1..Len(steps) : i = 1 OBVIOUS
  <1>2. todo[a] \in Seq(StepsOf(a)) /\ 1 \in 1..Len(todo[a]) BY StackFacts DEF Typed, Shape
  <1>3. \A i \in 1..Len(todo'[a]) : \/ i = 1 /\ todo'[a][i] = <<"claimLine", l>>
                                    \/ \E k \in 2..Len(todo[a]) : todo'[a][i] = todo[a][k]
    BY <1>1 DEF Moved, Moves
  <1> HIDE DEF steps
  <1>4. \A k \in 2..Len(todo[a]) : k \in 1..Len(todo[a]) /\ k # 1 BY <1>2
  <1>5. /\ ofGw[l] # None /\ (l \in Rings => a # l /\ todo[l] = <<>>)
        /\ \A b \in Actors : \A j \in 1..Len(todo[b]) : todo[b][j] \in Begins(l) => a = b
    <2>1. todo[a][1] \in Begins(l) BY DEF Begins
    <2>. QED BY <1>2, <2>1 DEF ClaimsFirst
  <1>6. \A k \in Lined, b \in Actors : \A i \in 1..Len(todo'[b]) :
           todo'[b][i] \in Begins(k) =>
               \/ b = a /\ i = 1 /\ k = l /\ todo'[b][i] = <<"claimLine", l>>
               \/ b # a /\ todo'[b] = todo[b] /\ k # l
    <2> SUFFICES ASSUME NEW k \in Lined, NEW b \in Actors, NEW i \in 1..Len(todo'[b]),
                        todo'[b][i] \in Begins(k)
                 PROVE  \/ b = a /\ i = 1 /\ k = l /\ todo'[b][i] = <<"claimLine", l>>
                        \/ b # a /\ todo'[b] = todo[b] /\ k # l
      OBVIOUS
    <2>1. CASE b # a
      <3>1. todo'[b] = todo[b] BY <2>1 DEF Moved
      <3>. QED BY <1>5, <2>1, <3>1
    <2>2. CASE b = a
      <3>1. ~\E j \in 2..Len(todo[a]) : todo'[a][i] = todo[a][j]
        BY <1>4, <2>2 DEF ClaimsFirst
      <3>2. i = 1 /\ todo'[a][i] = <<"claimLine", l>> BY <1>3, <2>2, <3>1
      <3>. QED BY <2>2, <3>2 DEF Begins
    <2>. QED BY <2>1, <2>2
  <1>7. ClaimsFirst'
    <2> SUFFICES ASSUME NEW k \in Lined, NEW b \in Actors, NEW i \in 1..Len(todo'[b]),
                        todo'[b][i] \in Begins(k)
                 PROVE  /\ i = 1
                        /\ ofGw'[k] # None
                        /\ k \in Rings => b # k /\ todo'[k] = <<>>
                        /\ \A e \in Actors : \A j \in 1..Len(todo'[e]) :
                              todo'[e][j] \in Begins(k) => b = e
      BY DEF ClaimsFirst, Begins
    <2>0. /\ k \in Actors
          /\ \A e \in Actors : \A j \in 1..Len(todo'[e]) : todo'[e][j] \in Begins(k) =>
                \/ e = a /\ k = l
                \/ e # a /\ todo'[e] = todo[e] /\ k # l
      BY <1>6 DEF Lined, Legs, Actors
    <2>1. CASE b = a /\ i = 1 /\ k = l
      BY <1>5, <2>0, <2>1 DEF Moved
    <2>2. CASE b # a /\ todo'[b] = todo[b] /\ k # l
      <3>1. /\ i = 1 /\ ofGw[k] # None /\ (k \in Rings => b # k /\ todo[k] = <<>>)
            /\ \A e \in Actors : \A j \in 1..Len(todo[e]) : todo[e][j] \in Begins(k) => b = e
        BY <2>2 DEF ClaimsFirst
      <3>2. k \in Rings => k # a BY <2>2, <3>1
      <3>4. k \in Rings => todo'[k] = <<>> BY <2>0, <3>1, <3>2 DEF Moved
      <3>. QED BY <2>0, <2>2, <3>1, <3>4
    <2>. QED BY <1>6, <2>1, <2>2
  <1>8. ASSUME NEW k \in Lined, Waiting(k)' PROVE Untouched(k)'
    <2>1. Untouched(k) /\ k # l
      <3>1. CASE ofGw'[k] = None BY <1>5, <3>1 DEF Fresh, Waiting
      <3>2. ASSUME NEW b \in Actors, Doing(b, "claim", k)' PROVE Untouched(k) /\ k # l
        <4>1. todo'[b] # <<>> /\ Head(todo'[b]) = <<"claim", k>> BY <3>2 DEF Doing
        <4>2. todo'[b] \in Seq(StepsOf(b)) BY DEF Moved, Typed, Shape
        <4>3. 1 \in 1..Len(todo'[b]) /\ todo'[b][1] = <<"claim", k>> BY <4>1, <4>2
        <4>4. <<"claim", k>> \in Begins(k) /\ <<"claim", k>> # <<"claimLine", l>> BY DEF Begins
        <4>5. todo'[b] = todo[b] /\ k # l BY <1>6, <4>3, <4>4
        <4>. QED BY <4>1, <4>5 DEF Fresh, Waiting, Doing
      <3>. QED BY <1>8, <3>1, <3>2 DEF Waiting
    <2>2. \A b \in Actors : \A i \in 1..Len(todo'[b]) : todo'[b][i] \notin Ends(k)
      <3> SUFFICES ASSUME NEW b \in Actors, NEW i \in 1..Len(todo'[b]), todo'[b][i] \in Ends(k)
                   PROVE  FALSE
        OBVIOUS
      <3>1. CASE b # a BY <2>1, <3>1 DEF Moved, Untouched
      <3>2. CASE b = a
        <4>1. <<"claimLine", l>> \notin Ends(k) BY DEF Ends
        <4>. QED BY <1>3, <1>4, <2>1, <3>2, <4>1 DEF Untouched
      <3>. QED BY <3>1, <3>2
    <2>3. \A s \in Sessions : sipCall'[s] # k BY <2>1 DEF Untouched
    <2>. QED BY <2>1, <2>2, <2>3 DEF Untouched, Ends
  <1>9. ASSUME NEW k \in Lined, ofGw'[k] = None PROVE todo'[k] = <<>>
    <2>1. todo[k] = <<>> /\ k \in Actors BY <1>9 DEF Fresh, Lined, Legs, Actors
    <2>2. k # a BY <2>1
    <2>. QED BY <2>1, <2>2 DEF Moved
  <1>10. Fresh' BY <1>8, <1>9 DEF Fresh
  <1>. QED BY <1>7, <1>10

LEMMA ClaimSipKept ==
  ASSUME IInv, NEW a \in Actors, NEW l \in Legs, ClaimSipCall(a, l)
  PROVE  IInv'
  <1> USE DEF IInv, Order
  <1>0. Typed /\ Doing(a, "claim", l) BY DEF ClaimSipCall
  <1>1. todo[a] # <<>> /\ todo[a][1] = <<"claim", l>> /\ 1 \in 1..Len(todo[a])
        /\ (l \in Rings \/ l = a)
    BY <1>0, StepFacts
  <1>2. /\ UNCHANGED <<uac, up, modem, urcs, call, opMu, gw, active, invite, ofGw, session, sessions,
                       ofSession, closing, byModem, started, owner>>
        /\ races \subseteq races' /\ races' \subseteq races \cup {"busy"}
    BY DEF ClaimSipCall, workerVars, gatewayVars, legVars, Race
  <1>12. stuck' \subseteq Sessions \cup {None}
    <2>1. stuck' \in {stuck, stuck \cup {ofSession[l]}} BY DEF ClaimSipCall
    <2>2. ofSession[l] \in Sessions \cup {None} /\ stuck \subseteq Sessions \cup {None}
      BY <1>0 DEF Typed, TypeOK
    <2>. QED BY <2>1, <2>2
  <1>3. sipCall' \in [Sessions -> Legs \cup {None}]
        /\ \A s \in Sessions : sipCall'[s] \in {sipCall[s], l}
    <2>1. sipCall \in [Sessions -> Legs \cup {None}] BY <1>0 DEF Typed, TypeOK
    <2>2. sipCall' \in {sipCall, [sipCall EXCEPT ![ofSession[l]] = l]} BY DEF ClaimSipCall
    <2>. QED BY <2>1, <2>2
  <1>4. TypeOK' BY <1>0, <1>2, <1>3, <1>12 DEF Typed, TypeOK
  <1>5. Steady BY <1>0, <1>2, <1>4 DEF Typed, Shape, Steady
  <1>6. CASE l \in Dials
    <2>0. l = a /\ l \notin Rings BY <1>1, <1>6, NamesAssumption
    <2>1. \A s \in Sessions : sipCall'[s] \in {sipCall[s], None} \cup Dials BY <1>3, <1>6
    <2>2. CASE Then(a, <<>>) /\ UNCHANGED sipCall BY <1>1, <1>5, <2>2, NoStep
    <2>3. CASE Then(a, <<<<"wait", l>>>>)
      <3>1. <<"wait", l>> \in StepsOf(a) BY <1>6, <2>0 DEF StepsOf
      <3>2. Ordinary(a, <<"wait", l>>) BY <2>0 DEF Ordinary, Begins, Ends
      <3>3. Guarded(a) => Raced'
        <4>1. ~Silent(todo[a][1]) BY <1>1, <2>0 DEF Silent, SilentFor
        <4>. QED BY <1>1, <1>2, <4>1, GuardedHead, RacesKept
      <3>. QED BY <1>1, <1>5, <2>1, <2>3, <3>1, <3>2, <3>3, OneStep
    <2>. QED BY <1>6, <2>2, <2>3 DEF ClaimSipCall
  <1>7. CASE l \notin Dials
    <2>0. l \in Lined /\ todo[a][1] \in Begins(l) BY <1>1, <1>7 DEF Lined, Legs, Begins
    <2>1. CASE Then(a, <<<<"close", l>>>>) /\ Race({"busy"}) /\ UNCHANGED sipCall
      <3>1. <<"close", l>> \in StepsOf(a) BY DEF StepsOf
      <3>2. Ordinary(a, <<"close", l>>)
        BY <1>1, <2>0 DEF Ordinary, Ends, Begins
      <3>3. Raced' BY <2>1 DEF Race, Raced, Unless
      <3>. QED BY <1>1, <1>5, <2>1, <3>1, <3>2, <3>3, OneStep
    <2>2. CASE Then(a, <<<<"claimLine", l>>>>)
      <3>0. PICK steps : steps = <<<<"claimLine", l>>>> OBVIOUS
      <3>1. <<"claimLine", l>> \in StepsOf(a) BY <1>1, <2>0 DEF StepsOf, Lined
      <3>2. /\ steps \in Seq(StepsOf(a)) /\ Len(steps) = 1 /\ Len(steps) \in Nat
            /\ \A i \in 1..Len(steps) : i = 1 /\ steps[i] = <<"claimLine", l>>
        BY <3>0, <3>1
      <3>3. Moved(a, steps) BY <1>0, <1>1, <2>2, <3>0, <3>2, ThenMoves
      <3>4. Typed' BY <1>0, <1>2, <1>4, <3>3 DEF Typed, Shape, Moved
      <3>5. ClaimsFirst' /\ Fresh' BY <1>1, <1>2, <1>3, <2>0, <3>0, <3>3, ClaimGoesOn
      <3>6. closing[l] = "open"
        <4>1. Waiting(l) BY <1>0 DEF Waiting
        <4>. QED BY <2>0, <4>1 DEF Fresh, Untouched
      <3>7. CloseOnce' /\ ActiveLegIsOpen'
        <4>1. ClosesInOrder BY <1>2 DEF ClosesInOrder
        <4>2. LinesInOrder BY <1>2 DEF LinesInOrder
        <4>3. StepsInOrder(steps) BY <1>2, <3>2, <3>6 DEF StepsInOrder
        <4>. QED BY <1>2, <3>3, <4>1, <4>2, <4>3, CloseMoves
      <3>8. LoopSilent' /\ LockedSilent' /\ EndsSilently'
        <4>1. \A n \in 1..Len(steps) : steps[n][1] # "closed" /\ steps[n] # UnlockStep
          BY <3>2 DEF UnlockStep
        <4>2. Guarded(a) => Raced' \/ \A i \in 1..Len(steps) : Silent(steps[i])
          <5>1. Silent(<<"claim", l>>) => Silent(<<"claimLine", l>>) BY DEF Silent, SilentFor
          <5>2. Raced => Raced' BY <1>2, RacesKept
          <5>. QED BY <1>1, <3>2, <5>1, <5>2, GuardedHead
        <4>3. todo[a][1][1] # "clearSip" BY <1>1
        <4>. QED BY <1>2, <3>2, <3>3, <4>1, <4>2, <4>3, SilentKept
      <3>. QED BY <3>4, <3>5, <3>7, <3>8
    <2>. QED BY <1>7, <2>1, <2>2 DEF ClaimSipCall
  <1>. QED BY <1>6, <1>7

\* A ring has its line: the claim is done, and its goroutine starts.
GoRing(a, l) == todo' = [todo EXCEPT ![a] = Tail(@), ![l] = <<<<"wait", l>>>>]

LEMMA RingStarts ==
  ASSUME IInv, NEW a \in Actors, NEW l \in Rings, todo[a] # <<>>, todo[a][1] = <<"claimLine", l>>,
         GoRing(a, l),
         NEW g \in Gateways, ofGw[l] = g, active' = [active EXCEPT ![g] = l],
         UNCHANGED <<uac, up, stuck, modem, urcs, call, opMu, gw, ofGw, session, sessions, sipCall, ofSession,
                     closing, byModem, started, owner, races>>,
         invite' \in [Legs -> {"none", "armed", "cancelled"}]
  PROVE  IInv'
  <1> USE DEF IInv, Order
  <1>0. /\ l \in Actors /\ l \in Legs /\ l \in Lined /\ l \notin Dials
        /\ l # Loop /\ (\A k \in Lined : k # None)
    BY NamesAssumption DEF Lined, Legs, Actors
  <1>1. todo[a] \in Seq(StepsOf(a)) /\ 1 \in 1..Len(todo[a]) /\ Len(todo[a]) \in Nat
    BY StackFacts DEF Typed, Shape
  <1>2. /\ a # l /\ todo[l] = <<>>
        /\ \A b \in Actors : \A j \in 1..Len(todo[b]) : todo[b][j] \in Begins(l) => a = b
    <2>1. todo[a][1] \in Begins(l) BY DEF Begins
    <2>. QED BY <1>0, <1>1, <2>1 DEF ClaimsFirst
  <1>3. todo = [b \in Actors |-> todo[b]] BY DEF Typed, Shape
  <1>4. /\ todo'[a] = Tail(todo[a]) /\ todo'[l] = <<<<"wait", l>>>>
        /\ todo' = [b \in Actors |-> todo'[b]]
        /\ \A b \in Actors : b # a /\ b # l => todo'[b] = todo[b]
    BY <1>0, <1>2, <1>3 DEF GoRing
  <1>5. /\ Len(todo'[a]) = Len(todo[a]) - 1 /\ todo'[a] \in Seq(StepsOf(a))
        /\ \A i \in 1..Len(todo'[a]) : i + 1 \in 1..Len(todo[a]) /\ todo'[a][i] = todo[a][i + 1]
    <2> DEFINE S == StepsOf(a)
    <2>1. todo[a] \in Seq(S) BY <1>1
    <2> HIDE DEF S
    <2>2. Tail(todo[a]) \in Seq(S) /\ Len(Tail(todo[a])) = Len(todo[a]) - 1
          /\ \A i \in 1..Len(Tail(todo[a])) : Tail(todo[a])[i] = todo[a][i + 1]
      BY <2>1
    <2>3. Len(todo'[a]) = Len(todo[a]) - 1 BY <1>4, <2>2
    <2>4. \A i \in 1..Len(todo'[a]) : i + 1 \in 1..Len(todo[a]) BY <1>1, <2>3
    <2>5. \A i \in 1..Len(todo'[a]) : todo'[a][i] = todo[a][i + 1] BY <1>4, <2>2
    <2>. QED BY <1>4, <2>2, <2>3, <2>4, <2>5 DEF S
  <1>6. Len(todo'[l]) = 1 /\ todo'[l][1] = <<"wait", l>> /\ \A i \in 1..Len(todo'[l]) : i = 1
    <2>1. \A t : Len(<<t>>) = 1 /\ <<t>>[1] = t /\ \A i \in 1..Len(<<t>>) : i = 1 OBVIOUS
    <2>. QED BY <1>4, <2>1
  <1>7. <<"wait", l>> \in StepsOf(l) /\ todo'[l] \in Seq(StepsOf(l))
    <2>1. <<"wait", l>> \in StepsOf(l) BY DEF StepsOf
    <2>2. \A t \in StepsOf(l) : <<t>> \in Seq(StepsOf(l)) OBVIOUS
    <2>. QED BY <1>4, <2>1, <2>2
  <1>8. \A b \in Actors : \A i \in 1..Len(todo'[b]) :
           \/ b = l /\ i = 1 /\ todo'[b][i] = <<"wait", l>>
           \/ b = a /\ i + 1 \in 1..Len(todo[a]) /\ todo'[b][i] = todo[a][i + 1]
           \/ b # a /\ b # l /\ todo'[b] = todo[b]
    BY <1>4, <1>5, <1>6
  <1>9. /\ active'[g] = l /\ active' = [h \in Gateways |-> active'[h]]
        /\ \A h \in Gateways : h # g => active'[h] = active[h]
    BY DEF Typed, Shape
  <1>10. Typed'
    <2>1. \A h \in Gateways : active'[h] \in {k \in Legs : ofGw'[k] = h} \cup {None}
      <3> SUFFICES ASSUME NEW h \in Gateways
                   PROVE  active'[h] \in {k \in Legs : ofGw[k] = h} \cup {None}
        OBVIOUS
      <3>1. CASE h = g BY <1>0, <1>9, <3>1
      <3>2. active[h] \in {k \in Legs : ofGw[k] = h} \cup {None} BY DEF Typed, TypeOK
      <3>. QED BY <1>9, <3>1, <3>2
    <2>2. TypeOK' BY <2>1 DEF Typed, TypeOK
    <2>3. \A b \in Actors : todo'[b] \in Seq(StepsOf(b))
      BY <1>4, <1>5, <1>7 DEF Typed, Shape
    <2>. QED BY <1>4, <1>9, <2>2, <2>3 DEF Typed, Shape
  <1>11. \A k \in Lined, b \in Actors : \A i \in 1..Len(todo'[b]) :
            todo'[b][i] \in Begins(k) => b # a /\ b # l /\ k # l /\ todo'[b] = todo[b]
    <2> SUFFICES ASSUME NEW k \in Lined, NEW b \in Actors, NEW i \in 1..Len(todo'[b]),
                        todo'[b][i] \in Begins(k)
                 PROVE  b # a /\ b # l /\ k # l /\ todo'[b] = todo[b]
      OBVIOUS
    <2>1. <<"wait", l>> \notin Begins(k) BY DEF Begins
    <2>2. ~(b = a /\ i + 1 \in 1..Len(todo[a]) /\ todo'[b][i] = todo[a][i + 1])
      <3>1. i + 1 # 1 BY DEF Typed
      <3>. QED BY <3>1 DEF ClaimsFirst
    <2>3. b # a /\ b # l /\ todo'[b] = todo[b] BY <1>8, <2>1, <2>2
    <2>. QED BY <1>2, <2>3
  <1>12. ClaimsFirst'
    <2> SUFFICES ASSUME NEW k \in Lined, NEW b \in Actors, NEW i \in 1..Len(todo'[b]),
                        todo'[b][i] \in Begins(k)
                 PROVE  /\ i = 1
                        /\ ofGw'[k] # None
                        /\ k \in Rings => b # k /\ todo'[k] = <<>>
                        /\ \A e \in Actors : \A j \in 1..Len(todo'[e]) :
                              todo'[e][j] \in Begins(k) => b = e
      BY DEF ClaimsFirst, Begins
    <2>0. b # a /\ b # l /\ k # l /\ todo'[b] = todo[b] /\ k \in Actors
      BY <1>11 DEF Lined, Legs, Actors
    <2>1. /\ i = 1 /\ ofGw[k] # None /\ (k \in Rings => b # k /\ todo[k] = <<>>)
          /\ \A e \in Actors : \A j \in 1..Len(todo[e]) : todo[e][j] \in Begins(k) => b = e
      BY <2>0 DEF ClaimsFirst
    <2>2. k \in Rings => todo'[k] = <<>> BY <1>4, <2>0, <2>1
    <2>3. \A e \in Actors : \A j \in 1..Len(todo'[e]) : todo'[e][j] \in Begins(k) => b = e
      BY <1>11, <2>1
    <2>. QED BY <2>1, <2>2, <2>3
  <1>13. ASSUME NEW k \in Lined, Waiting(k)' PROVE Untouched(k)'
    <2>1. Untouched(k) /\ k # l
      <3>1. CASE ofGw'[k] = None BY <3>1, NamesAssumption DEF Fresh, Waiting
      <3>2. ASSUME NEW b \in Actors, Doing(b, "claim", k)' PROVE Untouched(k) /\ k # l
        <4>1. todo'[b] # <<>> /\ Head(todo'[b]) = <<"claim", k>> BY <3>2 DEF Doing
        <4>2. todo'[b] \in Seq(StepsOf(b)) BY <1>10 DEF Typed, Shape
        <4>3. 1 \in 1..Len(todo'[b]) /\ todo'[b][1] = <<"claim", k>>
          <5>1. \A t \in Seq(StepsOf(b)) : t # <<>> => 1 \in 1..Len(t) /\ Head(t) = t[1] OBVIOUS
          <5>. QED BY <4>1, <4>2, <5>1
        <4>4. <<"claim", k>> \in Begins(k) BY DEF Begins
        <4>5. todo'[b] = todo[b] /\ k # l BY <1>11, <4>3, <4>4
        <4>. QED BY <4>1, <4>5 DEF Fresh, Waiting, Doing
      <3>. QED BY <1>13, <3>1, <3>2 DEF Waiting
    <2>2. \A b \in Actors : \A i \in 1..Len(todo'[b]) : todo'[b][i] \notin Ends(k)
      <3> SUFFICES ASSUME NEW b \in Actors, NEW i \in 1..Len(todo'[b]), todo'[b][i] \in Ends(k)
                   PROVE  FALSE
        OBVIOUS
      <3>1. <<"wait", l>> \notin Ends(k) BY <2>1 DEF Ends
      <3>. QED BY <1>8, <2>1, <3>1 DEF Untouched
    <2>3. \A h \in Gateways : active'[h] # k BY <1>9, <2>1 DEF Untouched
    <2>. QED BY <2>1, <2>2, <2>3 DEF Untouched, Ends
  <1>14. ASSUME NEW k \in Lined, ofGw'[k] = None PROVE todo'[k] = <<>>
    <2>1. todo[k] = <<>> /\ k \in Actors /\ k # l
      BY <1>14, NamesAssumption DEF Fresh, Lined, Legs, Actors
    <2>2. k # a BY <2>1
    <2>. QED BY <1>4, <2>1, <2>2
  <1>15. Fresh' BY <1>13, <1>14 DEF Fresh
  <1>16. (Early' <=> Early) /\ (Raced' <=> Raced) BY DEF Early, Raced, Unless
  <1>17. closing[l] = "open" \/ Early BY <1>0, <1>1 DEF CloseOnce
  <1>18. ASSUME NEW b \in Actors, NEW i \in 1..Len(todo[b]), todo[b][i] = <<"closed", l>>
         PROVE  Early
    <2>1. todo[b][i] \in {"legEnded", "closed"} \X {l} BY <1>18
    <2>2. closing[l] # "open" BY <1>0, <2>1 DEF CloseOnce
    <2>. QED BY <1>17, <2>2
  <1>19. CloseOnce'
    <2> SUFFICES ASSUME NEW k \in Legs, NEW b \in Actors, NEW i \in 1..Len(todo'[b])
                 PROVE  /\ todo'[b][i] \in {"legEnded", "closed"} \X {k} => closing[k] # "open"
                        /\ todo'[b][i] = <<"claimLine", k>> => closing[k] = "open" \/ Early
                        /\ todo'[b][i] = <<"closed", k>> =>
                             (\A h \in Gateways : active'[h] # k) \/ Early
                        /\ todo'[b][i] = <<"endLeg", k>> => ofGw[k] # None
      BY <1>16 DEF CloseOnce
    <2>1. ASSUME NEW c \in Actors, NEW j \in 1..Len(todo[c]), todo'[b][i] = todo[c][j]
          PROVE  /\ todo'[b][i] \in {"legEnded", "closed"} \X {k} => closing[k] # "open"
                 /\ todo'[b][i] = <<"claimLine", k>> => closing[k] = "open" \/ Early
                 /\ todo'[b][i] = <<"closed", k>> =>
                      (\A h \in Gateways : active'[h] # k) \/ Early
                 /\ todo'[b][i] = <<"endLeg", k>> => ofGw[k] # None
      <3>1. todo[c][j] = <<"closed", k>> => (\A h \in Gateways : active'[h] # k) \/ Early
        <4>1. CASE k = l BY <1>18, <4>1
        <4>2. CASE k # l BY <1>9, <4>2 DEF CloseOnce
        <4>. QED BY <4>1, <4>2
      <3>. QED BY <2>1, <3>1 DEF CloseOnce
    <2>2. CASE todo'[b][i] = <<"wait", l>> BY <2>2
    <2>. QED BY <1>8, <2>1, <2>2
  <1>20. ActiveLegIsOpen'
    <2> SUFFICES ASSUME NEW h \in Gateways, active'[h] # None
                 PROVE  ofGw[active'[h]] = h /\ (closing[active'[h]] # "done" \/ Early)
      BY <1>16 DEF ActiveLegIsOpen, Early
    <2>1. CASE h = g BY <1>9, <1>17, <2>1
    <2>2. CASE h # g BY <1>9, <2>2 DEF ActiveLegIsOpen, Early
    <2>. QED BY <2>1, <2>2
  <1>21. \A t : Silent(t)' <=> Silent(t) BY DEF Silent
  <1>22. LoopSilent'
    <2>1. \A i \in 1..Len(todo'[Loop]) : \E j \in 1..Len(todo[Loop]) : todo'[Loop][i] = todo[Loop][j]
      <3>1. Loop \in Actors BY DEF Actors
      <3>. QED BY <1>0, <1>8, <3>1
    <2>2. \A i \in 1..Len(todo'[Loop]) : Silent(todo'[Loop][i]) \/ Raced
      BY <2>1 DEF LoopSilent
    <2>. QED BY <1>16, <2>2 DEF LoopSilent, Silent
  <1>23. LockedSilent'
    <2> SUFFICES ASSUME NEW b \in Actors, NEW n \in 1..Len(todo'[b]), NEW i \in 1..n,
                        todo'[b][n] = UnlockStep
                 PROVE  Silent(todo'[b][i]) \/ Raced
      BY <1>16 DEF LockedSilent, UnlockStep, Silent
    <2>1. i \in 1..Len(todo'[b]) OBVIOUS
    <2>2. CASE b = a
      <3>1. /\ n + 1 \in 1..Len(todo[a]) /\ i + 1 \in 1..(n + 1)
            /\ todo'[b][n] = todo[a][n + 1] /\ todo'[b][i] = todo[a][i + 1]
        <4>1. i + 1 \in 1..(n + 1) BY <1>1, <1>5, <2>2
        <4>. QED BY <1>5, <2>1, <2>2, <4>1
      <3>. QED BY <3>1 DEF LockedSilent
    <2>3. CASE b = l
      <3>1. UnlockStep # <<"wait", l>> BY DEF UnlockStep
      <3>. QED BY <1>6, <2>3, <3>1
    <2>4. CASE b # a /\ b # l BY <1>4, <2>4 DEF LockedSilent
    <2>. QED BY <2>2, <2>3, <2>4
  <1>24. EndsSilently'
    <2> SUFFICES ASSUME NEW k \in byModem \cup Dials, NEW b \in Actors,
                        NEW n \in 1..Len(todo'[b]), NEW i \in 1..n,
                        todo'[b][n] = <<"closed", k>>
                 PROVE  i = n \/ todo'[b][i] = <<"clearSip", k>> \/ Early
      BY <1>16 DEF EndsSilently
    <2>1. i \in 1..Len(todo'[b]) OBVIOUS
    <2>2. CASE b = a
      <3>1. /\ n + 1 \in 1..Len(todo[a]) /\ i + 1 \in 1..(n + 1)
            /\ todo'[b][n] = todo[a][n + 1] /\ todo'[b][i] = todo[a][i + 1]
        <4>1. i + 1 \in 1..(n + 1) BY <1>1, <1>5, <2>2
        <4>. QED BY <1>5, <2>1, <2>2, <4>1
      <3>2. todo[a][n + 1] = <<"closed", k>> BY <3>1
      <3>3. i + 1 = n + 1 \/ todo[a][i + 1] = <<"clearSip", k>> \/ Early
        BY <3>1, <3>2 DEF EndsSilently
      <3>. QED BY <3>1, <3>3
    <2>3. CASE b = l BY <1>6, <2>3
    <2>4. CASE b # a /\ b # l BY <1>4, <2>4 DEF EndsSilently
    <2>. QED BY <2>2, <2>3, <2>4
  <1>. QED BY <1>10, <1>12, <1>15, <1>19, <1>20, <1>22, <1>23, <1>24

LEMMA ClaimLineKept ==
  ASSUME IInv, NEW a \in Actors, NEW l \in Legs, ClaimLine(a, l)
  PROVE  IInv'
  <1> USE DEF IInv, Order
  <1> DEFINE g == ofGw[l]
  <1>0. Typed /\ Doing(a, "claimLine", l) BY DEF ClaimLine
  <1>1. todo[a] # <<>> /\ todo[a][1] = <<"claimLine", l>> /\ 1 \in 1..Len(todo[a])
        /\ (l \in Rings \/ (l = a /\ l \in Invites))
    BY <1>0, StepFacts
  <1>2. l \in Lined /\ todo[a][1] \in Begins(l) BY <1>1 DEF Lined, Begins
  <1>3. g \in Gateways
    <2>1. ofGw[l] # None BY <1>1, <1>2 DEF ClaimsFirst
    <2>. QED BY <1>0, <2>1 DEF Typed, TypeOK
  <1>4. UNCHANGED <<uac, up, stuck, modem, urcs, call, opMu, gw, ofGw, session, sessions, sipCall, ofSession,
                    closing, byModem, started, owner>>
    BY DEF ClaimLine, workerVars, sessionVars, legVars
  <1>5. CASE active[g] # None
    <2>1. /\ Then(a, (IF l \in Rings THEN <<<<"clearSip", l>>>> ELSE <<>>) \o <<<<"close", l>>>>)
          /\ Race({"busy"}) /\ UNCHANGED <<active, invite>>
      BY <1>5 DEF ClaimLine
    <2>2. Steady /\ \A s \in Sessions : sipCall'[s] \in {sipCall[s], None}
      BY <1>4, <2>1, SteadyWorker DEF Race, Typed, TypeOK, Shape, gatewayVars, sessionVars, legVars
    <2>3. /\ <<"close", l>> \in StepsOf(a) /\ <<"clearSip", l>> \in StepsOf(a)
          /\ Silent(<<"clearSip", l>>) /\ <<"close", l>> # UnlockStep
      BY DEF StepsOf, Silent, SilentFor, UnlockStep
    <2>4. Ordinary(a, <<"close", l>>) /\ Ordinary(a, <<"clearSip", l>>)
      BY <1>1, <1>2 DEF Ordinary, Ends, Begins
    <2>5. PICK steps : /\ Then(a, steps) /\ Fine(a, steps)
      <3>0. \A t : /\ t \in StepsOf(a) /\ Ordinary(a, t) /\ (t = UnlockStep => Silent(t)) =>
                      /\ Fine(a, <<>>) /\ AllSilent(<<>>) /\ Fine(a, <<t>>)
                      /\ Silent(t) => AllSilent(<<t>>)
        BY FineStep
      <3>1. /\ Fine(a, <<>>) /\ AllSilent(<<>>) /\ Fine(a, <<<<"close", l>>>>)
            /\ Fine(a, <<<<"clearSip", l>>>>) /\ AllSilent(<<<<"clearSip", l>>>>)
        BY <2>3, <2>4, <3>0
      <3>2. /\ Fine(a, <<>> \o <<<<"close", l>>>>)
            /\ Fine(a, <<<<"clearSip", l>>>> \o <<<<"close", l>>>>)
        BY <3>1, FineConcat
      <3>. QED BY <2>1, <3>2
    <2>6. steps \in Seq(StepsOf(a)) /\ Len(steps) \in Nat BY <2>5 DEF Fine
    <2>7. Moved(a, steps) BY <1>0, <1>1, <2>5, <2>6, ThenMoves
    <2>8. Raced' BY <2>1 DEF Race, Raced, Unless
    <2>9. todo[a][1][1] # "clearSip" /\ \A s \in Sessions : sipCall'[s] \in {sipCall[s], None} \cup Dials
      BY <1>1, <2>2
    <2>. QED BY <1>1, <2>2, <2>5, <2>6, <2>7, <2>8, <2>9, OrdinaryKept DEF Fine
  <1>6. CASE active[g] = None /\ l \in Rings
    <2>1. /\ GoRing(a, l) /\ active' = [active EXCEPT ![g] = l]
          /\ invite' = [invite EXCEPT ![l] = "armed"] /\ UNCHANGED races
      BY <1>6 DEF ClaimLine, GoRing
    <2>2. invite' \in [Legs -> {"none", "armed", "cancelled"}] BY <1>0, <2>1 DEF Typed, TypeOK
    <2>. QED BY <1>1, <1>3, <1>4, <1>6, <2>1, <2>2, RingStarts
  <1>7. CASE active[g] = None /\ l \notin Rings
    <2>0. l = a /\ l \in Invites BY <1>1, <1>7
    <2>1. /\ Then(a, <<<<"dial", None>>, <<"respond", l>>>>) /\ active' = [active EXCEPT ![g] = l]
          /\ UNCHANGED <<invite, races>>
      BY <1>7 DEF ClaimLine
    <2>2. PICK steps : steps = <<<<"dial", None>>, <<"respond", l>>>> OBVIOUS
    <2>3. <<"dial", None>> \in StepsOf(a) /\ <<"respond", l>> \in StepsOf(a)
      BY <2>0 DEF StepsOf
    <2>4. /\ steps \in Seq(StepsOf(a)) /\ Len(steps) = 2 /\ Len(steps) \in Nat
          /\ \A i \in 1..Len(steps) : steps[i] \in {<<"dial", None>>, <<"respond", l>>}
      BY <2>2, <2>3
    <2>5. Moved(a, steps) BY <1>0, <1>1, <2>1, <2>2, <2>4, ThenMoves
    <2>6. /\ active'[g] = l /\ active' = [h \in Gateways |-> active'[h]]
          /\ \A h \in Gateways : h # g => active'[h] = active[h]
      BY <1>0, <1>3, <2>1 DEF Typed, Shape
    <2>7. Typed'
      <3>1. \A h \in Gateways : active'[h] \in {k \in Legs : ofGw'[k] = h} \cup {None}
        <4> SUFFICES ASSUME NEW h \in Gateways
                     PROVE  active'[h] \in {k \in Legs : ofGw[k] = h} \cup {None}
          BY <1>4
        <4>1. CASE h = g BY <2>6, <4>1
        <4>2. active[h] \in {k \in Legs : ofGw[k] = h} \cup {None} BY <1>0 DEF Typed, TypeOK
        <4>. QED BY <2>6, <4>1, <4>2
      <3>2. TypeOK' BY <1>0, <1>4, <2>1, <3>1 DEF Typed, TypeOK
      <3>. QED BY <1>0, <1>4, <2>5, <2>6, <3>2 DEF Typed, Shape, Moved
    <2>8. ClaimsFirst' /\ Fresh'
      <3>1. ASSUME NEW k \in Lined, Untouched(k), k # a
            PROVE  /\ closing'[k] = "open" /\ \A h \in Gateways : active'[h] # k
                   /\ \A s \in Sessions : sipCall'[s] # k
        BY <1>4, <2>0, <2>6, <3>1 DEF Untouched
      <3>2. ASSUME NEW k \in Lined, k # a
            PROVE  \A i \in 1..Len(steps) : steps[i] \notin Ends(k)
        BY <2>0, <2>4, <3>2 DEF Ends
      <3>3. \A k \in Lined : \A i \in 1..Len(steps) : steps[i] \notin Begins(k)
        BY <2>4 DEF Begins
      <3>. QED BY <1>1, <1>4, <2>4, <2>5, <3>1, <3>2, <3>3, ClaimsKept
    <2>9. CloseOnce' /\ ActiveLegIsOpen'
      <3>0. (closing[l] = "open" \/ Early) /\ (Early => Early')
        BY <1>1, <2>1, RacesKept DEF CloseOnce
      <3>1. ClosesInOrder BY <1>4 DEF ClosesInOrder
      <3>2. LinesInOrder
        <4>1. \A h \in Gateways : active'[h] \notin {active[h], None} => h = g BY <2>6
        <4>. QED BY <1>4, <2>6, <3>0, <4>1 DEF LinesInOrder
      <3>3. StepsInOrder(steps) BY <2>4 DEF StepsInOrder
      <3>4. races \subseteq races' BY <2>1
      <3>. QED BY <2>5, <3>1, <3>2, <3>3, <3>4, CloseMoves
    <2>10. LoopSilent' /\ LockedSilent' /\ EndsSilently'
      <3>1. \A n \in 1..Len(steps) : steps[n][1] # "closed" /\ steps[n] # UnlockStep
        BY <2>4 DEF UnlockStep
      <3>2. Guarded(a) => Raced'
        <4>1. ~Silent(todo[a][1]) BY <1>1, <1>7 DEF Silent, SilentFor
        <4>2. Raced => Raced' BY <2>1, RacesKept
        <4>. QED BY <1>1, <4>1, <4>2, GuardedHead
      <3>3. todo[a][1][1] # "clearSip" /\ races \subseteq races' BY <1>1, <2>1
      <3>. QED BY <1>4, <2>4, <2>5, <3>1, <3>2, <3>3, SilentKept
    <2>. QED BY <2>7, <2>8, <2>9, <2>10
  <1>. QED BY <1>5, <1>6, <1>7

-----------------------------------------------------------------------------
(* The theorems.                                                           *)

LEMMA InitKept ==
  ASSUME Init
  PROVE  IInv
  <1> USE DEF Init
  <1>1. TypeOK
    BY BoundsAssumption, NamesAssumption DEF TypeOK, Idle, CallState, Gateways
  <1>2. Shape
    BY StateFacts DEF Shape
  <1>3. \A b \in Actors : todo[b] = <<>> /\ \A i \in 1..Len(todo[b]) : FALSE
    OBVIOUS
  <1>4. None \notin Legs /\ Lined \subseteq Actors /\ Lined \subseteq Legs /\ Loop \in Actors
    BY NamesAssumption DEF Actors, Legs, Lined
  <1>5. ClaimsFirst BY <1>3 DEF ClaimsFirst
  <1>6. Fresh BY <1>3, <1>4 DEF Fresh, Untouched
  <1>7. CloseOnce BY <1>3 DEF CloseOnce
  <1>8. ActiveLegIsOpen BY DEF ActiveLegIsOpen
  <1>9. LoopSilent /\ LockedSilent /\ EndsSilently
    BY <1>3, <1>4 DEF LoopSilent, LockedSilent, EndsSilently
  <1>. QED BY <1>1, <1>2, <1>5, <1>6, <1>7, <1>8, <1>9 DEF IInv, Order, Typed

LEMMA StepKept ==
  ASSUME IInv, NEW a \in Actors, Step(a)
  PROVE  IInv'
  <1>1. CASE Dial(a) \/ Answer(a) BY <1>1, DialAnswerKept
  <1>2. CASE Hangup(a) BY <1>2, HangupKept
  <1>3. CASE Unlock(a) BY <1>3, UnlockKept
  <1>4. CASE CloseSession(a) BY <1>4, CloseSessionKept
  <1>5. CASE EndSessionCallFromModem(a) BY <1>5, EndSessionKept
  <1>6. ASSUME NEW l \in Legs,
               \/ EndLegFromModem(a, l) \/ Close(a, l) \/ HandleLegEnded(a, l)
               \/ ClearSipCall(a, l) \/ Closed(a, l) \/ ClaimSipCall(a, l)
               \/ ClaimLine(a, l) \/ RespondSDP(a, l) \/ WaitAnswer(a, l)
        PROVE  IInv'
    BY <1>6, EndLegKept, CloseStepKept, HandleLegEndedKept, ClearSipKept, ClosedKept,
       ClaimSipKept, ClaimLineKept, RespondKept, WaitAnswerKept
  <1>7. ASSUME NEW x, SetCallState(a, x) \/ SyncModemState(a, x) PROVE IInv'
    BY <1>7, SetKept, SyncModemKept
  <1>. QED BY <1>1, <1>2, <1>3, <1>4, <1>5, <1>6, <1>7 DEF Step

LEMMA NextKept ==
  ASSUME IInv, [Next]_vars
  PROVE  IInv'
  <1>1. CASE Network BY <1>1, RemoteKept, OnInviteKept, OnByeKept DEF Network
  <1>2. CASE Api BY <1>2, WebKept, RebootKept, UnreadyKept, HangupSIPKept, DialSIPKept DEF Api
  <1>3. CASE SyncSIPInbound \/ NewSIPInboundGateway
    BY <1>3, SyncSIPInboundKept, NewGatewayKept
  <1>4. CASE HandleURC BY <1>4, HandleURCKept
  <1>5. ASSUME NEW a \in Actors, Step(a) \/ \E c \in Commands : Reply(a, c) PROVE IInv'
    BY <1>5, StepKept, ReplyKept
  <1>6. CASE UNCHANGED vars
    <2>1. UNCHANGED <<uac, up, stuck, modem, urcs, call, opMu, gw, active, invite, ofGw, session, sessions, sipCall,
                      ofSession, closing, byModem, todo, started, owner, races>>
      BY <1>6 DEF vars, workerVars, gatewayVars, sessionVars, legVars
    <2>2. TypeOK' BY <2>1 DEF IInv, Typed, TypeOK
    <2>3. call' \in CallStates /\ urcs' \in Seq(Lines) BY <2>1 DEF IInv, Typed, Shape
    <2>. QED BY <2>1, <2>2, <2>3, StayKept
  <1>. QED BY <1>1, <1>2, <1>3, <1>4, <1>5, <1>6 DEF Next

LEMMA LoopFree ==
  ASSUME IInv
  PROVE  LoopNeverWaits
  <1> USE DEF IInv, Order
  <1>0. Loop \in Actors BY DEF Actors
  <1> DEFINE Busy == {"hangup", "at", "dial", "answer"}
  <1>1. \A t : t[1] \in Busy => ~Silent(t) BY DEF Silent, SilentFor
  <1>2. \A a \in Actors : Len(todo[a]) \in Nat BY DEF Typed, Shape
  <1>3. \A a \in Actors : \A n \in 1..Len(todo[a]) : \A i \in 1..n : i \in 1..Len(todo[a]) BY <1>2
  <1>4. CASE NeedsLoop(Loop, Len(todo[Loop]))
    BY <1>1, <1>4 DEF NeedsLoop, LoopSilent, LoopNeverWaits, Raced
  <1>5. ASSUME NEW a \in Actors, NEW n \in 1..Len(todo[a]), todo[a][n] = <<"unlock", None>>,
               NeedsOp(a, n)
        PROVE  Raced
    BY <1>1, <1>5 DEF NeedsOp, LockedSilent, UnlockStep
  <1>6. ASSUME NEW l \in Legs, NEW a \in Actors, Doing(Loop, "close", l),
               NEW n \in 1..Len(todo[a]), todo[a][n] = <<"closed", l>>, NeedsLoop(a, n)
        PROVE  Raced
    <2>1. todo[Loop][1] = <<"close", l>> /\ 1 \in 1..Len(todo[Loop]) BY <1>0, <1>6, StepFacts
    <2>2. Silent(<<"close", l>>) \/ Raced BY <2>1 DEF LoopSilent
    <2>3. CASE l \in byModem \cup Dials
      <3>1. PICK i \in 1..n : todo[a][i][1] \in Busy BY <1>6 DEF NeedsLoop
      <3>2. i # n BY <1>6, <3>1
      <3>3. todo[a][i] # <<"clearSip", l>> BY <3>1
      <3>4. Early BY <1>6, <2>3, <3>2, <3>3 DEF EndsSilently
      <3>. QED BY <3>4 DEF Early, Raced, Unless
    <2>4. CASE l \notin byModem \cup Dials
      BY <2>2, <2>4 DEF Silent, SilentFor
    <2>. QED BY <2>3, <2>4
  <1>. QED BY <1>4, <1>5, <1>6 DEF LoopNeverWaits, Raced

LEMMA Invariance == Spec => []IInv
  BY InitKept, NextKept, PTL DEF Spec

\* The worker's call snapshot, the gateway's active leg, the sessions of the
\* call manager and the step of every goroutine keep their types.
THEOREM TypeCorrect == Spec => []TypeOK
  <1>1. IInv => TypeOK BY DEF IInv, Typed
  <1>. QED BY <1>1, Invariance, PTL

\* handleLegEnded, run once by the goroutine that took closeOnce, always gives
\* up the place of the active leg: a closed leg keeps no gateway's line busy,
\* unless it was closed while its handler was still claiming the line.
THEOREM ClosedLegsFreeTheLine == Spec => []ActiveLegIsOpen
  <1>1. IInv => ActiveLegIsOpen BY DEF IInv, Order
  <1>. QED BY <1>1, Invariance, PTL

\* The serial loop runs the call-state listeners of what the modem says and
\* never waits there for a transaction only it can serve, nor does the holder of
\* callOpMu come to lock it again, unless one of the named races happened.
THEOREM LoopIsFree == Spec => []LoopNeverWaits
  BY Invariance, LoopFree, PTL

-----------------------------------------------------------------------------
(* What the worker's state has to do with the modem.                       *)

\* Goroutine a, or somebody, has still step t to do.
HadIn(s, t) == \E i \in 1..Len(s) : s[i] = t
Had(a, t) == HadIn(todo[a], t)
Has(t) == \E a \in Actors : Had(a, t)

Timeout == Unless({"timeout"})
Cfun == <<"at", "CFUN">>
Rebooting == Had("web", Cfun)
\* The modem has a call in progress; a line of it says that a call has ended.
InCall == modem \in {"calling", "talking"}
NoCarrier == \E i \in 1..Len(urcs) : urcs[i] = "NO CARRIER"
\* The states of a call that is placed, and of one that is not.
Dialing == CallState("dialing", FALSE, FALSE)
Idling == {x \in CallStates : x.state = "idle"}

\* A command of the holder of callOpMu, and what else comes first on a stack.
Command(t) == t[1] = "at" /\ t[2] # "CFUN"
First(t) ==
    \/ t[1] \in {"sync", "endLeg", "dial", "answer", "wait", "claim", "claimLine"}
    \/ Command(t)

\* A step of a call attempt: when it fails, nothing else is given up with it.
Lone(a, t) == t \in {<<"dial", None>>, <<"answer", None>>, <<"at", "ATD">>, <<"at", "ATA">>,
                     <<"wait", a>>, <<"claim", a>>, <<"claimLine", a>>}

Places ==
    \A a \in Actors : \A i \in 1..Len(todo[a]) :
        /\ First(todo[a][i]) => i = 1
        /\ todo[a][i][1] = "set" =>
              \/ i = 1
              \/ /\ todo[a][i][2].state # "idle"
                 /\ \E j \in 1..Len(todo[a]) : j > i /\ todo[a][j] = UnlockStep
        /\ todo[a][i][1] = "closeSession" => i = 1 \/ i = Len(todo[a])
        /\ todo[a][i] = Cfun => i = Len(todo[a])
        /\ i > 1 /\ Lone(a, todo[a][1]) => todo[a][i][1] = "respond"

\* Who has a command to wait for, or callOpMu to release, holds it.
Locking(t) == t = UnlockStep \/ Command(t)
Locks ==
    \A a \in Actors : \A i \in 1..Len(todo[a]) : Locking(todo[a][i]) =>
        opMu = a /\ \A j \in 1..Len(todo[a]) : Locking(todo[a][j]) => i = j

\* A change of the call state is made, and reported, by the loop, by the holder
\* of callOpMu or by a reboot.
Origin(a) == a = Loop \/ opMu = a \/ (a = "web" /\ Rebooting)
Changing(t) == t[1] \in {"set", "sync", "endLeg"}
Origins == \A a \in Actors : \A i \in 1..Len(todo[a]) : Changing(todo[a][i]) => Origin(a)

\* Nobody declares the modem's call ended, or believes that there is none, while
\* there is one.
Ending(t) ==
    \/ t[1] \in {"set", "sync"} /\ t[2].state = "idle"
    \/ t[1] = "endLeg"
    \/ t \in {<<"at", "ATD">>, <<"at", "QPCMV">>}
Ended == ~InCall \/ Timeout \/ Rebooting
Endings == \A a \in Actors : \A i \in 1..Len(todo[a]) : Ending(todo[a][i]) => Ended

\* The end of a call is in the worker's state, or on the way to it ...
EndComes ==
    modem = "none" /\ call.state # "idle" =>
        \/ Unless({"late", "timeout"}) \/ NoCarrier
        \/ \E x \in Idling : Has(<<"set", x>>)
\* ... and so is a call.
CallComes ==
    InCall /\ call.state = "idle" =>
        \/ Timeout \/ Rebooting
        \/ \E a \in Actors, x \in CallStates \ Idling : opMu = a /\ Had(a, <<"set", x>>)

\* The handler of a call of DialSIP has not started.
DialsFresh == \A d \in Dials : ofSession[d] = None => todo[d] = <<>>

\* A reboot ends with its command.
RebootGoesOn == \A op \in {"reboot", "unready"} : Had("web", <<op, None>>) => Rebooting

\* The audio device is not ready because of a reboot, which ends the modem's call.
Unready ==
    /\ uac = "unready" => Timeout \/ Rebooting
    /\ uac = "gone" => ~InCall

\* Together with IInv, this is inductive.
WInv == Places /\ Locks /\ Origins /\ Endings /\ EndComes /\ CallComes
        /\ (NoCarrier => ~InCall) /\ DialsFresh /\ RebootGoesOn /\ Unready

-----------------------------------------------------------------------------
\* Goroutine a has done its first step and goes on with these, and then with the
\* rest or with nothing; the goroutine of a ring may start.
Others(a) ==
    \A b \in Actors : b # a =>
        \/ todo'[b] = todo[b]
        \/ b \in Rings /\ todo[b] = <<>> /\ todo'[b] = <<<<"wait", b>>>>

Went(a, steps) ==
    /\ Others(a) /\ Moves(a, steps) /\ Len(steps) \in Nat
    /\ \A i \in 1..Len(steps) : i \in 1..Len(todo'[a]) /\ todo'[a][i] = steps[i]

Full(a, steps) ==
    /\ Went(a, steps)
    /\ Len(todo'[a]) = IF todo[a] = <<>> THEN Len(steps) ELSE Len(steps) + Len(todo[a]) - 1
    /\ \A k \in 2..Len(todo[a]) : HadIn(todo'[a], todo[a][k])

Dropped(a, steps) == Went(a, steps) /\ Len(todo'[a]) = Len(steps)

LEMMA ConcatFacts ==
  ASSUME NEW S, NEW s \in Seq(S), NEW t \in Seq(S), t # <<>>
  PROVE  /\ Len(s) \in Nat /\ Len(t) \in Nat /\ Len(s \o Tail(t)) = Len(s) + Len(t) - 1
         /\ \A i \in 1..Len(s) : i \in 1..Len(s \o Tail(t)) /\ (s \o Tail(t))[i] = s[i]
         /\ \A k \in 2..Len(t) : /\ Len(s) + k - 1 \in 1..Len(s \o Tail(t))
                                 /\ (s \o Tail(t))[Len(s) + k - 1] = t[k]
         /\ \A i \in 1..Len(s \o Tail(t)) :
               \/ i \in 1..Len(s) /\ (s \o Tail(t))[i] = s[i]
               \/ \E k \in 2..Len(t) : i = Len(s) + k - 1 /\ (s \o Tail(t))[i] = t[k]
  <1>1. /\ Tail(t) \in Seq(S) /\ Len(t) \in Nat /\ Len(s) \in Nat /\ Len(Tail(t)) = Len(t) - 1
        /\ \A k \in 1..Len(Tail(t)) : Tail(t)[k] = t[k + 1]
    OBVIOUS
  <1> DEFINE c == s \o Tail(t)
  <1>2. /\ Len(c) = Len(s) + Len(Tail(t))
        /\ \A i \in 1..Len(s) : c[i] = s[i]
        /\ \A k \in 1..Len(Tail(t)) : c[Len(s) + k] = Tail(t)[k]
    BY <1>1
  <1> HIDE DEF c
  <1>3. \A k \in 2..Len(t) : Len(s) + k - 1 \in 1..Len(c) /\ c[Len(s) + k - 1] = t[k]
    <2> SUFFICES ASSUME NEW k \in 2..Len(t)
                 PROVE  Len(s) + k - 1 \in 1..Len(c) /\ c[Len(s) + k - 1] = t[k]
      OBVIOUS
    <2>1. k - 1 \in 1..Len(Tail(t)) /\ (k - 1) + 1 = k /\ Len(s) + (k - 1) = Len(s) + k - 1
      BY <1>1
    <2>2. c[Len(s) + (k - 1)] = t[(k - 1) + 1] BY <1>1, <1>2, <2>1
    <2>. QED BY <1>1, <1>2, <2>1, <2>2
  <1>4. ASSUME NEW i \in 1..Len(c), i \notin 1..Len(s)
        PROVE  \E k \in 2..Len(t) : i = Len(s) + k - 1 /\ c[i] = t[k]
    <2>1. i - Len(s) + 1 \in 2..Len(t) /\ i = Len(s) + (i - Len(s) + 1) - 1 BY <1>1, <1>2, <1>4
    <2>. QED BY <1>3, <2>1
  <1>5. \A i \in 1..Len(s) : i \in 1..Len(c) BY <1>1, <1>2
  <1>. QED BY <1>1, <1>2, <1>3, <1>4, <1>5 DEF c

LEMMA ThenFull ==
  ASSUME Typed, NEW a \in Actors, todo[a] # <<>>, NEW S, NEW steps \in Seq(S), Then(a, steps)
  PROVE  Full(a, steps)
  <1> DEFINE T == S \cup StepsOf(a)  t == todo[a]
  <1>1. t \in Seq(StepsOf(a)) /\ todo' = [todo EXCEPT ![a] = steps \o Tail(t)]
        /\ todo = [b \in Actors |-> todo[b]]
    BY DEF Then, Typed, Shape
  <1>2. t \in Seq(T) /\ steps \in Seq(T) /\ t # <<>> BY <1>1
  <1>3. todo'[a] = steps \o Tail(t) /\ \A b \in Actors : b # a => todo'[b] = todo[b]
    BY <1>1
  <1> HIDE DEF T, t
  <1>4. /\ Len(steps) \in Nat /\ Len(t) \in Nat /\ Len(todo'[a]) = Len(steps) + Len(t) - 1
        /\ \A i \in 1..Len(steps) : i \in 1..Len(todo'[a]) /\ todo'[a][i] = steps[i]
        /\ \A k \in 2..Len(t) : /\ Len(steps) + k - 1 \in 1..Len(todo'[a])
                                /\ todo'[a][Len(steps) + k - 1] = t[k]
        /\ \A i \in 1..Len(todo'[a]) :
               \/ i \in 1..Len(steps) /\ todo'[a][i] = steps[i]
               \/ \E k \in 2..Len(t) : i = Len(steps) + k - 1 /\ todo'[a][i] = t[k]
    BY <1>2, <1>3, ConcatFacts
  <1>5. Moves(a, steps) BY <1>4 DEF Moves, t
  <1>6. \A k \in 2..Len(t) : HadIn(todo'[a], t[k]) BY <1>4 DEF HadIn
  <1>. QED BY <1>2, <1>3, <1>4, <1>5, <1>6 DEF Full, Went, Others, t

LEMMA StartDropped ==
  ASSUME Typed, NEW a \in Actors, NEW S, NEW steps \in Seq(S), todo' = [todo EXCEPT ![a] = steps]
  PROVE  Dropped(a, steps) /\ (todo[a] = <<>> => Full(a, steps))
  <1>1. todo = [b \in Actors |-> todo[b]] BY DEF Typed, Shape
  <1>2. todo'[a] = steps /\ (\A b \in Actors : b # a => todo'[b] = todo[b]) BY <1>1
  <1>3. Went(a, steps) BY <1>2 DEF Went, Others, Moves
  <1>. QED BY <1>2, <1>3 DEF Dropped, Full

\* Where a step on a stack comes from.
LEMMA Elements ==
  ASSUME Typed, NEW a \in Actors, NEW steps, Went(a, steps),
         NEW b \in Actors, NEW i \in 1..Len(todo'[b])
  PROVE  \/ b = a /\ i \in 1..Len(steps) /\ todo'[a][i] = steps[i]
         \/ b = a /\ \E k \in 1..Len(todo[a]) :
               k > 1 /\ i = Len(steps) + k - 1 /\ todo'[a][i] = todo[a][k]
         \/ b # a /\ i \in 1..Len(todo[b]) /\ todo'[b] = todo[b]
         \/ b # a /\ i = 1 /\ Len(todo'[b]) = 1 /\ todo'[b][1] = <<"wait", b>>
  <1>1. CASE b = a
    <2>1. todo[a] \in Seq(StepsOf(a)) BY DEF Typed, Shape
    <2>2. \A k \in 2..Len(todo[a]) : k \in 1..Len(todo[a]) /\ k > 1 BY <2>1
    <2>. QED BY <1>1, <2>2 DEF Went, Moves
  <1>2. CASE b # a /\ todo'[b] = todo[b] BY <1>2
  <1>3. CASE b # a /\ todo'[b] = <<<<"wait", b>>>>
    <2>1. Len(todo'[b]) = 1 /\ todo'[b][1] = <<"wait", b>> BY <1>3
    <2>. QED BY <1>3, <2>1
  <1>. QED BY <1>1, <1>2, <1>3 DEF Went, Others

-----------------------------------------------------------------------------
(* What a goroutine puts on its stack, and what it leaves of it.           *)

\* Steps that may be put on a stack.
Neat(a, steps) ==
    /\ \A i \in 1..Len(steps) :
          /\ First(steps[i]) => i = 1
          /\ steps[i][1] = "set" =>
                \/ i = 1
                \/ /\ steps[i][2].state # "idle"
                   /\ \E j \in 1..Len(steps) : j > i /\ steps[j] = UnlockStep
          /\ steps[i][1] = "closeSession" => i = 1 \/ (i = Len(steps) /\ Len(todo'[a]) = Len(steps))
          /\ steps[i] = Cfun => i = Len(steps) /\ Len(todo'[a]) = Len(steps)
          /\ i > 1 /\ Lone(a, steps[1]) => steps[i][1] = "respond"
    /\ Len(steps) > 0 /\ Lone(a, steps[1]) =>
          todo[a] = <<>> \/ Lone(a, todo[a][1]) \/ Len(todo'[a]) = Len(steps)

LEMMA LoneFirst ==
  ASSUME NEW a, NEW t, Lone(a, t)
  PROVE  First(t) /\ t[1] # "set"
  BY DEF Lone, First, Command

\* The order on the stacks is kept.
LEMMA PlacesKept ==
  ASSUME Typed, Places, NEW a \in Actors, NEW steps, Full(a, steps) \/ Dropped(a, steps),
         Neat(a, steps)
  PROVE  Places'
  <1>0. Went(a, steps) /\ Len(steps) \in Nat BY DEF Full, Dropped, Went
  <1>1. todo[a] \in Seq(StepsOf(a)) /\ Len(todo[a]) \in Nat BY DEF Typed, Shape
  <1>2. ASSUME NEW k \in 1..Len(todo[a]), k > 1, Len(steps) + k - 1 \in 1..Len(todo'[a])
        PROVE  /\ todo[a] # <<>> /\ 1 \in 1..Len(todo[a])
               /\ Len(todo'[a]) = Len(steps) + Len(todo[a]) - 1 /\ Len(todo'[a]) # Len(steps)
    <2>1. 1 \in 1..Len(todo[a]) /\ todo[a] # <<>> BY <1>1, <1>2
    <2>2. Len(todo'[a]) # Len(steps) BY <1>0, <1>1, <1>2
    <2>. QED BY <2>1, <2>2 DEF Full, Dropped
  <1> SUFFICES ASSUME NEW b \in Actors, NEW i \in 1..Len(todo'[b])
               PROVE  /\ First(todo'[b][i]) => i = 1
                      /\ todo'[b][i][1] = "set" =>
                           \/ i = 1
                           \/ /\ todo'[b][i][2].state # "idle"
                              /\ \E j \in 1..Len(todo'[b]) : j > i /\ todo'[b][j] = UnlockStep
                      /\ todo'[b][i][1] = "closeSession" => i = 1 \/ i = Len(todo'[b])
                      /\ todo'[b][i] = Cfun => i = Len(todo'[b])
                      /\ i > 1 /\ Lone(b, todo'[b][1]) => todo'[b][i][1] = "respond"
    BY DEF Places, Cfun
  <1>3. CASE b # a /\ i = 1 /\ Len(todo'[b]) = 1 /\ todo'[b][1] = <<"wait", b>>
    BY <1>3
  <1>4. CASE b # a /\ i \in 1..Len(todo[b]) /\ todo'[b] = todo[b]
    BY <1>4 DEF Places
  <1>5. CASE b = a /\ i \in 1..Len(steps) /\ todo'[a][i] = steps[i]
    <2>1. 1 \in 1..Len(steps) /\ todo'[a][1] = steps[1] BY <1>0, <1>5 DEF Went
    <2>2. \A j \in 1..Len(steps) : j \in 1..Len(todo'[a]) /\ todo'[a][j] = steps[j]
      BY <1>0 DEF Went
    <2>. QED BY <1>5, <2>1, <2>2 DEF Neat
  <1>6. ASSUME b = a, NEW k \in 1..Len(todo[a]), k > 1, i = Len(steps) + k - 1,
               todo'[a][i] = todo[a][k]
        PROVE  /\ First(todo'[b][i]) => i = 1
               /\ todo'[b][i][1] = "set" =>
                     /\ todo'[b][i][2].state # "idle"
                     /\ \E j \in 1..Len(todo'[b]) : j > i /\ todo'[b][j] = UnlockStep
               /\ todo'[b][i][1] = "closeSession" => i = Len(todo'[b])
               /\ todo'[b][i] = Cfun => i = Len(todo'[b])
               /\ i > 1 /\ Lone(b, todo'[b][1]) => todo'[b][i][1] = "respond"
    <2>1. /\ todo[a] # <<>> /\ 1 \in 1..Len(todo[a])
          /\ Len(todo'[a]) = Len(steps) + Len(todo[a]) - 1 /\ Len(todo'[a]) # Len(steps)
      BY <1>2, <1>6
    <2>2. ~First(todo[a][k]) BY <1>6 DEF Places
    <2>3. ASSUME todo[a][k][1] = "set"
          PROVE  /\ todo[a][k][2].state # "idle"
                 /\ \E j \in 1..Len(todo'[a]) : j > i /\ todo'[a][j] = UnlockStep
      <3>1. todo[a][k][2].state # "idle" /\ \E m \in 1..Len(todo[a]) : m > k /\ todo[a][m] = UnlockStep
        BY <1>6, <2>3 DEF Places
      <3>2. PICK m \in 1..Len(todo[a]) : m > k /\ todo[a][m] = UnlockStep BY <3>1
      <3> DEFINE j == Len(steps) + m - 1
      <3>3. j \in 1..Len(todo'[a]) /\ j \notin 1..Len(steps) /\ j > i 
        BY <1>0, <1>1, <1>6, <2>1, <3>2
      <3> HIDE DEF j
      <3>4. PICK n \in 2..Len(todo[a]) : j = Len(steps) + n - 1 /\ todo'[a][j] = todo[a][n]
        <4>1. Moves(a, steps) BY <1>0 DEF Went
        <4>. QED BY <3>3, <4>1 DEF Moves
      <3>5. n = m
        <4>1. Len(steps) \in Nat /\ n \in Nat /\ m \in Nat BY <1>0, <1>1, <3>2, <3>4
        <4>2. Len(steps) + n - 1 = Len(steps) + m - 1 BY <3>4 DEF j
        <4>. QED BY ONLY <4>1, <4>2
      <3>. QED BY <3>1, <3>2, <3>3, <3>4, <3>5
    <2>4. todo[a][k][1] = "closeSession" => i = Len(todo'[a])
      <3>1. todo[a][k][1] = "closeSession" => k = Len(todo[a]) BY <1>6 DEF Places
      <3>. QED BY <1>6, <2>1, <3>1
    <2>6. todo[a][k] = Cfun => i = Len(todo'[a])
      <3>1. todo[a][k] = Cfun => k = Len(todo[a]) BY <1>6 DEF Places
      <3>. QED BY <1>6, <2>1, <3>1
    <2>5. i > 1 /\ Lone(a, todo'[a][1]) => todo[a][k][1] = "respond"
      <3> SUFFICES ASSUME i > 1, Lone(a, todo'[a][1]) PROVE todo[a][k][1] = "respond"
        OBVIOUS
      <3>1. CASE Len(steps) > 0
        <4>1. 1 \in 1..Len(steps) /\ todo'[a][1] = steps[1] BY <1>0, <3>1 DEF Went
        <4>2. Lone(a, todo[a][1]) BY <2>1, <3>1, <4>1 DEF Neat
        <4>. QED BY <1>6, <4>2 DEF Places
      <3>2. CASE Len(steps) = 0
        <4>1. 1 \in 1..Len(todo'[a]) BY <1>6, <3>2
        <4>2. PICK j \in 1..Len(todo[a]) : j > 1 /\ todo'[a][1] = todo[a][j]
          BY <1>0, <3>2, <4>1, Elements
        <4>3. ~First(todo[a][j]) BY <4>2 DEF Places
        <4>. QED BY <4>2, <4>3, LoneFirst
      <3>. QED BY <1>0, <3>1, <3>2
    <2>. QED BY <1>6, <2>2, <2>3, <2>4, <2>5, <2>6
  <1>. QED BY <1>0, <1>3, <1>4, <1>5, <1>6, Elements

\* A goroutine that goes on takes callOpMu when it is free, and gives it up when
\* it held it.
LEMMA LocksKept ==
  ASSUME Typed, Locks, NEW a \in Actors, NEW steps, Went(a, steps),
         \/ opMu' = opMu \/ opMu = None
         \/ todo[a] # <<>> /\ Locking(todo[a][1]),
         \A i \in 1..Len(steps) : Locking(steps[i]) =>
             /\ opMu' = a
             /\ \A j \in 1..Len(steps) : Locking(steps[j]) => i = j
             /\ opMu = None \/ (todo[a] # <<>> /\ Locking(todo[a][1]))
  PROVE  Locks'
  <1>1. None \notin Actors BY NamesAssumption
  <1>2. todo[a] # <<>> => 1 \in 1..Len(todo[a]) BY StackFacts
  <1>3. \A b : ~Locking(<<"wait", b>>) BY DEF Locking, Command, UnlockStep
  <1>4. \A b \in Actors : \A i \in 1..Len(todo[b]) : Locking(todo[b][i]) => opMu = b
    BY DEF Locks
  <1>5. ASSUME NEW k \in 1..Len(todo[a]), k > 1, Locking(todo[a][k])
        PROVE  opMu = a /\ opMu' = a /\ \A i \in 1..Len(steps) : ~Locking(steps[i])
    <2>1. opMu = a /\ (todo[a] # <<>> /\ Locking(todo[a][1]) => FALSE)
      BY <1>2, <1>5 DEF Locks
    <2>. QED BY <1>1, <2>1
  <1> SUFFICES ASSUME NEW b \in Actors, NEW i \in 1..Len(todo'[b]), Locking(todo'[b][i])
               PROVE  opMu' = b /\ \A j \in 1..Len(todo'[b]) : Locking(todo'[b][j]) => i = j
    BY DEF Locks
  <1>6. CASE b # a
    <2>0. ~(i = 1 /\ todo'[b][1] = <<"wait", b>>) BY <1>3
    <2>1. i \in 1..Len(todo[b]) /\ todo'[b] = todo[b] BY <1>6, <2>0, Elements
    <2>2. opMu = b BY <1>4, <2>1
    <2>3. todo[a] # <<>> => ~Locking(todo[a][1]) BY <1>2, <1>4, <1>6, <2>2
    <2>. QED BY <1>1, <2>1, <2>2, <2>3 DEF Locks
  <1>7. CASE b = a
    <2>1. opMu' = a BY <1>5, <1>7, Elements
    <2>2. ASSUME NEW j \in 1..Len(todo'[a]), Locking(todo'[a][j]) PROVE i = j
      <3>1. CASE i \in 1..Len(steps) /\ todo'[a][i] = steps[i]
        <4>1. j \in 1..Len(steps) /\ todo'[a][j] = steps[j]
          BY <1>5, <1>7, <2>2, <3>1, Elements
        <4>. QED BY <1>7, <2>2, <3>1, <4>1
      <3>2. ASSUME NEW k \in 1..Len(todo[a]), k > 1, i = Len(steps) + k - 1,
                   todo'[a][i] = todo[a][k]
            PROVE  i = j
        <4>1. Locking(todo[a][k]) BY <1>7, <3>2
        <4>0. \A n \in 1..Len(steps) : ~Locking(steps[n]) BY <1>5, <3>2, <4>1
        <4>2. PICK m \in 1..Len(todo[a]) : m > 1 /\ j = Len(steps) + m - 1 /\ todo'[a][j] = todo[a][m]
          BY <2>2, <4>0, Elements
        <4>3. k = m BY <2>2, <4>1, <4>2 DEF Locks
        <4>. QED BY <3>2, <4>2, <4>3
      <3>. QED BY <1>7, <3>1, <3>2, Elements
    <2>. QED BY <1>7, <2>1, <2>2
  <1>. QED BY <1>6, <1>7

\* Nothing that was to be done is lost, but for the answer to an INVITE or the
\* end of a session.
Keeps(a) ==
    \A b \in Actors : \A t : Had(b, t) =>
        \/ HadIn(todo'[b], t)
        \/ b = a /\ t = todo[a][1]
        \/ t[1] \in {"respond", "closeSession"}

LEMMA OthersKeep ==
  ASSUME Typed, NEW a \in Actors, Others(a), NEW b \in Actors, b # a, NEW t, Had(b, t)
  PROVE  HadIn(todo'[b], t)
  <1>1. todo[b] # <<>>
    <2>1. todo[b] = <<>> => Len(todo[b]) = 0 OBVIOUS
    <2>. QED BY <2>1 DEF Had, HadIn
  <1>. QED BY <1>1 DEF Others, Had

LEMMA FullKeeps ==
  ASSUME Typed, NEW a \in Actors, NEW steps, Full(a, steps)
  PROVE  Keeps(a)
  <1>1. todo[a] \in Seq(StepsOf(a)) /\ Len(todo[a]) \in Nat BY DEF Typed, Shape
  <1>2. \A k \in 1..Len(todo[a]) : k = 1 \/ k \in 2..Len(todo[a]) BY <1>1
  <1>3. ASSUME NEW t, Had(a, t) PROVE HadIn(todo'[a], t) \/ t = todo[a][1]
    BY <1>2, <1>3 DEF Had, HadIn, Full
  <1>. QED BY <1>3, OthersKeep DEF Keeps, Full, Went

LEMMA DroppedKeeps ==
  ASSUME Typed, Places, NEW a \in Actors, NEW steps, Dropped(a, steps), todo[a] # <<>>,
         \/ Lone(a, todo[a][1])
         \/ Len(todo[a]) = 2 /\ todo[a][2] = <<"closeSession", None>>
  PROVE  Keeps(a)
  <1>1. todo[a] \in Seq(StepsOf(a)) /\ Len(todo[a]) \in Nat BY DEF Typed, Shape
  <1>2. \A k \in 1..Len(todo[a]) : k = 1 \/ k > 1 BY <1>1
  <1>3. ASSUME NEW t, Had(a, t) PROVE t = todo[a][1] \/ t[1] \in {"respond", "closeSession"}
    <2>1. PICK k \in 1..Len(todo[a]) : todo[a][k] = t BY <1>3 DEF Had, HadIn
    <2>2. CASE Lone(a, todo[a][1]) BY <1>2, <2>1, <2>2 DEF Places
    <2>3. CASE Len(todo[a]) = 2 /\ todo[a][2] = <<"closeSession", None>>
      <3>1. k = 1 \/ k = 2 BY <2>3
      <3>. QED BY <2>1, <2>3, <3>1
    <2>. QED BY <2>2, <2>3
  <1>. QED BY <1>3, OthersKeep DEF Keeps, Dropped, Went

\* callOpMu changes hands only when it is free, or by its holder.
OpMoves(a) ==
    \/ opMu' = opMu \/ opMu = None
    \/ todo[a] # <<>> /\ Locking(todo[a][1])

\* A reboot that has been asked for is carried out.
LEMMA RebootingKept ==
  ASSUME NEW a \in Actors, Keeps(a), Rebooting,
         ~(a = "web" /\ todo[a] # <<>> /\ todo[a][1] = Cfun)
  PROVE  Rebooting'
  <1>1. "web" \in Actors BY DEF Actors
  <1>2. Cfun[1] = "at" BY DEF Cfun
  <1>3. todo["web"] = <<>> => FALSE
    <2>1. todo["web"] = <<>> => Len(todo["web"]) = 0 OBVIOUS
    <2>. QED BY <2>1 DEF Rebooting, Had, HadIn
  <1>4. HadIn(todo'["web"], Cfun) BY <1>1, <1>2, <1>3 DEF Keeps, Rebooting
  <1>. QED BY <1>4 DEF Rebooting, Had, HadIn, Cfun

\* The origin of what somebody else does stays; so does that of what a does,
\* unless it gives up callOpMu or reboots.
LEMMA OriginKept ==
  ASSUME Typed, Locks, NEW a \in Actors, Keeps(a), OpMoves(a), NEW b \in Actors, Origin(b),
         b = a => todo[a] # <<>> /\ ~Locking(todo[a][1]) /\ todo[a][1] # Cfun
  PROVE  Origin(b)'
  <1>1. None \notin Actors BY NamesAssumption
  <1>2. todo[a] # <<>> /\ Locking(todo[a][1]) => opMu = a
    BY StackFacts DEF Locks
  <1>3. opMu = b => opMu' = b BY <1>1, <1>2 DEF OpMoves
  <1>4. b = "web" /\ Rebooting => Rebooting' BY RebootingKept
  <1>. QED BY <1>3, <1>4 DEF Origin

\* A change of the state keeps its origin.
LEMMA OriginsKept ==
  ASSUME Typed, Places, Locks, Origins, NEW a \in Actors, NEW steps, Went(a, steps), Keeps(a),
         OpMoves(a), \A i \in 1..Len(steps) : Changing(steps[i]) => Origin(a)'
  PROVE  Origins'
  <1> SUFFICES ASSUME NEW b \in Actors, NEW i \in 1..Len(todo'[b]), Changing(todo'[b][i])
               PROVE  Origin(b)'
    BY DEF Origins, Changing
  <1>1. CASE b = a /\ i \in 1..Len(steps) /\ todo'[a][i] = steps[i] BY <1>1
  <1>2. ASSUME b = a, NEW k \in 1..Len(todo[a]), k > 1, todo'[a][i] = todo[a][k]
        PROVE  Origin(b)'
    <2>1. Changing(todo[a][k]) /\ Origin(a) BY <1>2 DEF Origins
    <2>2. ~First(todo[a][k]) BY <1>2 DEF Places
    <2>3. todo[a][k][1] = "set" BY <2>1, <2>2 DEF Changing, First
    <2>4. PICK j \in 1..Len(todo[a]) : j > k /\ todo[a][j] = UnlockStep BY <1>2, <2>3 DEF Places
    <2>6. todo[a] # <<>> /\ 1 \in 1..Len(todo[a]) /\ Len(todo[a]) \in Nat
      <3>1. todo[a] = <<>> => Len(todo[a]) = 0 OBVIOUS
      <3>. QED BY <1>2, <3>1, StackFacts
    <2>5. ~Locking(todo[a][1])
      <3>1. Locking(todo[a][j]) BY <2>4 DEF Locking
      <3>. QED BY <1>2, <2>4, <2>6, <3>1 DEF Locks
    <2>7. todo[a][1] # Cfun BY <1>2, <2>6 DEF Places
    <2>. QED BY <1>2, <2>1, <2>5, <2>6, <2>7, OriginKept
  <1>3. CASE b # a /\ i \in 1..Len(todo[b]) /\ todo'[b] = todo[b]
    <2>1. Origin(b) BY <1>3 DEF Origins
    <2>. QED BY <1>3, <2>1, OriginKept
  <1>4. ~(i = 1 /\ todo'[b][1] = <<"wait", b>>) BY DEF Changing
  <1>. QED BY <1>1, <1>2, <1>3, <1>4, Elements

\* Nobody who declares the call ended is overtaken by a new call.
LEMMA EndingsKept ==
  ASSUME Typed, Endings, NEW a \in Actors, NEW steps, Went(a, steps), Ended => Ended',
         \A i \in 1..Len(steps) : Ending(steps[i]) => Ended'
  PROVE  Endings'
  <1> SUFFICES ASSUME NEW b \in Actors, NEW i \in 1..Len(todo'[b]), Ending(todo'[b][i])
               PROVE  Ended'
    BY DEF Endings, Ending
  <1>1. ~(i = 1 /\ todo'[b][1] = <<"wait", b>>) BY DEF Ending
  <1>2. CASE b # a /\ i \in 1..Len(todo[b]) /\ todo'[b] = todo[b]
    <2>1. Ended BY <1>2 DEF Endings
    <2>. QED BY <2>1
  <1>3. ASSUME b = a, NEW k \in 1..Len(todo[a]), todo'[a][i] = todo[a][k] PROVE Ended'
    <2>1. Ended BY <1>3 DEF Endings
    <2>. QED BY <2>1
  <1>4. \/ b = a /\ i \in 1..Len(steps) /\ todo'[a][i] = steps[i]
        \/ b = a /\ \E k \in 1..Len(todo[a]) : todo'[a][i] = todo[a][k]
        \/ b # a /\ i \in 1..Len(todo[b]) /\ todo'[b] = todo[b]
        \/ b # a /\ i = 1 /\ todo'[b][1] = <<"wait", b>>
    BY Elements
  <1>. QED BY <1>1, <1>2, <1>3, <1>4

LEMMA RebootGoesOnKept ==
  ASSUME Typed, Places, RebootGoesOn, NEW a \in Actors, NEW steps, Went(a, steps), Keeps(a),
         \A i \in 1..Len(steps) : steps[i][1] \in {"reboot", "unready"} => Rebooting'
  PROVE  RebootGoesOn'
  <1> SUFFICES ASSUME NEW op \in {"reboot", "unready"},
                      NEW i \in 1..Len(todo'["web"]), todo'["web"][i] = <<op, None>>
               PROVE  Rebooting'
    BY DEF RebootGoesOn, Had, HadIn
  <1>0. "web" \in Actors /\ "web" \notin Rings BY NamesAssumption DEF Actors, Legs
  <1>1. CASE a = "web" /\ i \in 1..Len(steps) /\ todo'["web"][i] = steps[i] BY <1>1
  <1>2. ASSUME NEW k \in 1..Len(todo["web"]), todo["web"][k] = <<op, None>>,
               a = "web" => k > 1
        PROVE  Rebooting'
    <2>1. Rebooting BY <1>2 DEF RebootGoesOn, Had, HadIn
    <2>2. ~(a = "web" /\ todo[a] # <<>> /\ todo[a][1] = Cfun)
      <3> SUFFICES ASSUME a = "web", todo[a] # <<>>, todo[a][1] = Cfun PROVE FALSE OBVIOUS
      <3>1. 1 \in 1..Len(todo[a]) /\ Len(todo[a]) \in Nat BY StackFacts
      <3>2. Len(todo[a]) = 1 BY <3>1 DEF Places
      <3>. QED BY <1>2, <3>2
    <2>. QED BY <2>1, <2>2, RebootingKept
  <1>3. ~(i = 1 /\ todo'["web"][1] = <<"wait", "web">>) OBVIOUS
  <1>4. \/ a = "web" /\ i \in 1..Len(steps) /\ todo'["web"][i] = steps[i]
        \/ \E k \in 1..Len(todo["web"]) :
              todo["web"][k] = todo'["web"][i] /\ (a = "web" => k > 1)
    <2>1. CASE a = "web"
      <3>1. PICK n \in 1..Len(todo'[a]) : n = i BY <2>1
      <3>2. \/ n \in 1..Len(steps) /\ todo'[a][n] = steps[n]
            \/ \E k \in 1..Len(todo[a]) : k > 1 /\ todo'[a][n] = todo[a][k]
        BY Elements
      <3>. QED BY <2>1, <3>1, <3>2
    <2>2. CASE a # "web" BY <1>0, <1>3, <2>2, Elements
    <2>. QED BY <2>1, <2>2
  <1>. QED BY <1>1, <1>2, <1>4

LEMMA DialsFreshKept ==
  ASSUME Typed, DialsFresh, NEW a \in Actors, Others(a),
         \A d \in Dials : ofSession'[d] = None => ofSession[d] = None /\ (d = a => todo[a] # <<>>)
  PROVE  DialsFresh'
  <1> SUFFICES ASSUME NEW d \in Dials, ofSession'[d] = None PROVE todo'[d] = <<>>
    BY DEF DialsFresh
  <1>1. todo[d] = <<>> /\ d # a BY DEF DialsFresh
  <1>2. d \in Actors /\ d \notin Rings BY NamesAssumption DEF Actors, Legs
  <1>. QED BY <1>1, <1>2 DEF Others

-----------------------------------------------------------------------------
(* A step that changes neither the call nor the lock keeps WInv.           *)

\* What has happened has happened.
LEMMA LateKept ==
  ASSUME races \subseteq races'
  PROVE  /\ Timeout => Timeout'
         /\ Unless({"late", "timeout"}) => Unless({"late", "timeout"})'
         /\ Unless({"early", "timeout"}) => Unless({"early", "timeout"})'
  BY DEF Timeout, Unless

\* A step of a stack is lost only by being done.
LEMMA HasKept ==
  ASSUME NEW a \in Actors, Keeps(a), NEW t, Has(t), t[1] \notin {"respond", "closeSession"},
         todo[a] # <<>> => t # todo[a][1]
  PROVE  Has(t)'
  <1>1. PICK b \in Actors : Had(b, t) BY DEF Has
  <1>2. HadIn(todo'[b], t)
    <2>1. todo[b] = <<>> => Len(todo[b]) = 0 OBVIOUS
    <2>2. todo[b] # <<>> BY <1>1, <2>1 DEF Had, HadIn
    <2>. QED BY <1>1, <2>2 DEF Keeps
  <1>. QED BY <1>2 DEF Has, Had, HadIn

\* A step that leaves the worker and the modem alone.
Calm(a, steps) ==
    /\ Full(a, steps) \/ (Dropped(a, steps) /\ Keeps(a))
    /\ Neat(a, steps)
    /\ \A i \in 1..Len(steps) :
          /\ ~Locking(steps[i])
          /\ Changing(steps[i]) => Origin(a) /\ todo[a] # <<>>
          /\ Ending(steps[i]) => Ended
          /\ steps[i][1] \in {"reboot", "unready"} => Rebooting'
    /\ todo[a] # <<>> =>
          todo[a][1][1] # "set" /\ todo[a][1] # Cfun /\ ~Locking(todo[a][1])
    /\ \A d \in Dials : ofSession'[d] = None => ofSession[d] = None /\ (d = a => todo[a] # <<>>)

LEMMA CalmKeeps ==
  ASSUME Typed, NEW a \in Actors, NEW steps, Calm(a, steps)
  PROVE  Keeps(a) /\ Went(a, steps)
  <1>1. CASE Full(a, steps) BY <1>1, FullKeeps DEF Full
  <1>2. CASE Dropped(a, steps) /\ Keeps(a) BY <1>2 DEF Dropped
  <1>. QED BY <1>1, <1>2 DEF Calm

LEMMA CalmKept ==
  ASSUME IInv, WInv, NEW a \in Actors, NEW steps, Calm(a, steps),
         UNCHANGED <<modem, urcs, call, opMu>>, races \subseteq races',
         uac' = uac \/ (uac' = "unready" /\ Rebooting)
  PROVE  WInv'
  <1> USE DEF WInv
  <1>0. Typed BY DEF IInv
  <1>1. Keeps(a) /\ Went(a, steps) BY <1>0, CalmKeeps
  <1>2. Places' BY <1>0, PlacesKept DEF Calm
  <1>3. OpMoves(a) BY DEF OpMoves
  <1>4. Locks' BY <1>0, <1>1, LocksKept DEF Calm
  <1>5. Origins'
    <2>1. todo[a] # <<>> /\ Origin(a) => Origin(a)'
      BY <1>0, <1>1, <1>3, OriginKept DEF Calm
    <2>. QED BY <1>0, <1>1, <1>3, <2>1, OriginsKept DEF Calm
  <1>6. Rebooting => Rebooting' BY <1>1, RebootingKept DEF Calm
  <1>7. (Timeout => Timeout') /\ (Unless({"late", "timeout"}) => Unless({"late", "timeout"})')
    BY LateKept
  <1>8. (InCall' <=> InCall) /\ (NoCarrier' <=> NoCarrier) BY DEF InCall, NoCarrier
  <1>9. Ended => Ended' BY <1>6, <1>7, <1>8 DEF Ended
  <1>10. Endings' BY <1>0, <1>1, <1>9, EndingsKept DEF Calm
  <1>11. \A b \in Actors : \A x : Had(b, <<"set", x>>) => HadIn(todo'[b], <<"set", x>>)
    <2> SUFFICES ASSUME NEW b \in Actors, NEW x, Had(b, <<"set", x>>)
                 PROVE  HadIn(todo'[b], <<"set", x>>)
      OBVIOUS
    <2>1. todo[b] = <<>> => Len(todo[b]) = 0 OBVIOUS
    <2>2. todo[b] # <<>> BY <2>1 DEF Had, HadIn
    <2>3. b = a => <<"set", x>> # todo[a][1] BY <2>2 DEF Calm
    <2>. QED BY <1>1, <2>3 DEF Keeps
  <1>12. EndComes'
    <2>1. \A x : Has(<<"set", x>>) => Has(<<"set", x>>)' BY <1>11 DEF Has, Had, HadIn
    <2>. QED BY <1>7, <1>8, <2>1 DEF EndComes
  <1>13. CallComes'
    <2>1. \A b \in Actors : \A x : Had(b, <<"set", x>>) => Had(b, <<"set", x>>)'
      BY <1>11 DEF Had, HadIn
    <2>. QED BY <1>6, <1>7, <1>8, <2>1 DEF CallComes
  <1>14. DialsFresh' BY <1>0, <1>1, DialsFreshKept DEF Calm, Went
  <1>15. RebootGoesOn' BY <1>0, <1>1, RebootGoesOnKept DEF Calm
  <1>16. Unready' BY <1>6, <1>7, <1>8 DEF Unready
  <1>. QED BY <1>2, <1>4, <1>5, <1>8, <1>10, <1>12, <1>13, <1>14, <1>15, <1>16

\* X is what is put on the stack of a; the rest of it was there.
Pushes(a, X) ==
    /\ \A t \in X : HadIn(todo'[a], t)
    /\ \A t : HadIn(todo'[a], t) => Had(a, t) \/ t \in X

LEMMA WentPushes ==
  ASSUME Typed, NEW a \in Actors, NEW steps, Went(a, steps), NEW X,
         \A i \in 1..Len(steps) : steps[i] \in X,
         \A t \in X : \E i \in 1..Len(steps) : steps[i] = t
  PROVE  Pushes(a, X)
  <1>1. \A t \in X : HadIn(todo'[a], t) BY DEF Went, HadIn
  <1>2. ASSUME NEW t, HadIn(todo'[a], t) PROVE Had(a, t) \/ t \in X
    <2>1. PICK i \in 1..Len(todo'[a]) : todo'[a][i] = t BY <1>2 DEF HadIn
    <2>2. \/ i \in 1..Len(steps) /\ todo'[a][i] = steps[i]
          \/ \E k \in 1..Len(todo[a]) : todo'[a][i] = todo[a][k]
      BY Elements
    <2>. QED BY <2>1, <2>2 DEF Had, HadIn
  <1>. QED BY <1>1, <1>2 DEF Pushes

LEMMA ThenNone ==
  ASSUME Typed, NEW a \in Actors, todo[a] # <<>>, Then(a, <<>>)
  PROVE  Full(a, <<>>) /\ Keeps(a) /\ Pushes(a, {})
  <1>1. <<>> \in Seq({}) /\ Len(<<>>) = 0 OBVIOUS
  <1>2. Full(a, <<>>) BY <1>1, ThenFull
  <1>3. \A i \in 1..Len(<<>>) : FALSE BY <1>1
  <1>4. Went(a, <<>>) BY <1>2 DEF Full
  <1>. QED BY <1>2, <1>3, <1>4, FullKeeps, WentPushes

LEMMA ThenOne ==
  ASSUME Typed, NEW a \in Actors, todo[a] # <<>>, NEW t, Then(a, <<t>>)
  PROVE  Full(a, <<t>>) /\ Keeps(a) /\ Pushes(a, {t})
  <1>1. <<t>> \in Seq({t}) /\ Len(<<t>>) = 1 /\ <<t>>[1] = t OBVIOUS
  <1>2. Full(a, <<t>>) BY <1>1, ThenFull
  <1>3. 1 \in 1..Len(<<t>>) /\ \A i \in 1..Len(<<t>>) : i = 1 BY <1>1
  <1>4. Went(a, <<t>>) BY <1>2 DEF Full
  <1>5. Pushes(a, {t}) BY <1>1, <1>3, <1>4, WentPushes
  <1>. QED BY <1>2, <1>5, FullKeeps

\* The goroutine was idle.
LEMMA StartFull ==
  ASSUME Typed, NEW a \in Actors, todo[a] = <<>>, NEW S, NEW steps \in Seq(S),
         todo' = [todo EXCEPT ![a] = steps]
  PROVE  /\ Full(a, steps) /\ Keeps(a) /\ Len(todo'[a]) = Len(steps) /\ Len(steps) \in Nat
         /\ \A t : HadIn(todo'[a], t) <=> HadIn(steps, t)
  <1>1. Full(a, steps) /\ Len(todo'[a]) = Len(steps) /\ Len(steps) \in Nat
    BY StartDropped DEF Dropped, Full, Went
  <1>2. todo'[a] = steps BY DEF Typed, Shape
  <1>. QED BY <1>1, <1>2, FullKeeps

\* What the goroutine has done is none of the steps of the worker.
Away(a) ==
    todo[a] # <<>> => todo[a][1][1] # "set" /\ todo[a][1] # Cfun /\ ~Locking(todo[a][1])

SessionsKept(a) ==
    \A d \in Dials : ofSession'[d] = None => ofSession[d] = None /\ (d = a => todo[a] # <<>>)

LEMMA CalmNone ==
  ASSUME Typed, NEW a \in Actors, todo[a] # <<>>, Then(a, <<>>), Away(a), SessionsKept(a)
  PROVE  Calm(a, <<>>)
  <1> DEFINE steps == <<>>
  <1>1. Full(a, steps) BY ThenNone
  <1>2. Len(steps) = 0 /\ \A i \in 1..Len(steps) : FALSE OBVIOUS
  <1> HIDE DEF steps
  <1>3. Neat(a, steps) BY <1>2 DEF Neat
  <1>4. Calm(a, steps) BY <1>1, <1>2, <1>3 DEF Calm, Away, SessionsKept
  <1>. QED BY <1>4 DEF steps

LEMMA CalmOne ==
  ASSUME Typed, NEW a \in Actors, todo[a] # <<>>, NEW t, Then(a, <<t>>), Away(a), SessionsKept(a),
         ~Locking(t), t # Cfun, Changing(t) => Origin(a), Ending(t) => Ended,
         Lone(a, t) => Lone(a, todo[a][1]), t[1] \notin {"reboot", "unready"}
  PROVE  Calm(a, <<t>>)
  <1> DEFINE steps == <<t>>
  <1>1. Full(a, steps) BY ThenOne
  <1>2. Len(steps) = 1 /\ steps[1] = t OBVIOUS
  <1> HIDE DEF steps
  <1>3. \A i \in 1..Len(steps) : i = 1 /\ steps[i] = t BY <1>2
  <1>4. todo[a][1] # <<"set", Dialing>> BY DEF Away
  <1>5. Neat(a, steps) BY <1>2, <1>3, <1>4 DEF Neat
  <1>6. Calm(a, steps) BY <1>1, <1>3, <1>5 DEF Calm, Away, SessionsKept
  <1>. QED BY <1>6 DEF steps

LEMMA CalmStart ==
  ASSUME Typed, NEW a \in Actors, todo[a] = <<>>, NEW S, NEW steps \in Seq(S),
         todo' = [todo EXCEPT ![a] = steps], SessionsKept(a),
         \A i \in 1..Len(steps) :
             /\ ~Locking(steps[i]) /\ ~Changing(steps[i]) /\ ~Ending(steps[i])
             /\ First(steps[i]) => i = 1
             /\ steps[i][1] = "closeSession" => i = 1 \/ i = Len(steps)
             /\ steps[i] = Cfun => i = Len(steps)
             /\ i > 1 => ~Lone(a, steps[1])
             /\ steps[i][1] \in {"reboot", "unready"} => Rebooting'
  PROVE  Calm(a, steps)
  <1>1. Full(a, steps) /\ Len(todo'[a]) = Len(steps) BY StartFull
  <1>2. \A i \in 1..Len(steps) : steps[i][1] # "set" BY DEF Changing
  <1>3. Neat(a, steps) BY <1>1, <1>2 DEF Neat
  <1>. QED BY <1>1, <1>3 DEF Calm, SessionsKept

\* Steps that neither change the state of the call nor need the lock.
PlainOps == {"close", "legEnded", "clearSip", "closed", "hangup", "endSession", "closeSession",
             "hangupSip", "respond", "newGateway", "locked"}

LEMMA PlainFacts ==
  ASSUME NEW a, NEW op \in PlainOps, NEW x, NEW t, t = <<op, x>>
  PROVE  /\ ~Locking(t) /\ t # Cfun /\ ~Changing(t) /\ ~Ending(t) /\ ~Lone(a, t) /\ ~First(t)
         /\ t[1] = op /\ t[1] \notin {"reboot", "unready"} /\ t[1] # "set"
  <1>1. t[1] = op /\ op \notin {"at", "unlock", "set", "sync", "endLeg", "reboot", "unready"} BY DEF PlainOps
  <1>2. ~Locking(t) /\ t # Cfun BY <1>1 DEF Locking, Command, UnlockStep, Cfun
  <1>3. ~Changing(t) /\ ~Ending(t) BY <1>1 DEF Changing, Ending
  <1>4. ~Lone(a, t) /\ ~First(t) BY <1>1 DEF Lone, First, Command, PlainOps
  <1>. QED BY <1>1, <1>2, <1>3, <1>4

LEMMA PlainMembers ==
  ASSUME NEW a, NEW S, NEW t \in PlainOps \X S
  PROVE  /\ ~Locking(t) /\ t # Cfun /\ ~Changing(t) /\ ~Ending(t)
         /\ ~Lone(a, t) /\ ~First(t) /\ t[1] \notin {"reboot", "unready", "set"}
  <1>1a. PICK op \in PlainOps : \E x : t = <<op, x>> OBVIOUS
  <1>1. PICK x : t = <<op, x>> BY <1>1a
  <1>2. /\ ~Locking(t) /\ t # Cfun /\ ~Changing(t) /\ ~Ending(t)
        /\ ~Lone(a, t) /\ ~First(t) /\ t[1] \notin {"reboot", "unready"} /\ t[1] # "set"
    BY <1>1, PlainFacts
  <1>. QED BY <1>2

LEMMA AwayFacts ==
  ASSUME NEW a \in Actors, NEW op, NEW x, todo[a][1] = <<op, x>>, op \notin {"set", "at", "unlock"}
  PROVE  Away(a)
  BY DEF Away, Locking, Command, UnlockStep, Cfun

\* Steps that put at most one ordinary step on the stack.
LEMMA PlainKept ==
  ASSUME IInv, WInv, NEW a \in Actors, NEW h, NEW y, Doing(a, h, y),
         h \notin {"set", "at", "unlock"}, UNCHANGED <<modem, urcs, call, opMu, uac>>,
         races \subseteq races', UNCHANGED ofSession,
         Then(a, <<>>) \/ \E op \in PlainOps : \E x : Then(a, <<<<op, x>>>>)
  PROVE  WInv'
  <1>0. Typed /\ todo[a] # <<>> /\ todo[a][1] = <<h, y>> BY StepFacts DEF IInv
  <1>1. Away(a) /\ SessionsKept(a) BY <1>0, AwayFacts DEF SessionsKept
  <1>2. CASE Then(a, <<>>) BY <1>0, <1>1, <1>2, CalmNone, CalmKept
  <1>3. ASSUME NEW op \in PlainOps, NEW x, Then(a, <<<<op, x>>>>) PROVE WInv'
    <2>1. PICK t : t = <<op, x>> OBVIOUS
    <2>2. /\ ~Locking(t) /\ t # Cfun /\ ~Changing(t) /\ ~Ending(t) /\ ~Lone(a, t)
          /\ t[1] \notin {"reboot", "unready"}
      BY <2>1, PlainFacts
    <2>3. Calm(a, <<t>>) BY <1>0, <1>1, <1>3, <2>1, <2>2, CalmOne
    <2>. QED BY <2>3, CalmKept
  <1>. QED BY <1>2, <1>3

\* The end of a leg and of a session.
LEMMA EndsFollow ==
  ASSUME IInv, WInv, NEW a \in Actors,
         \/ CloseSession(a) \/ EndSessionCallFromModem(a) \/ (a = "web" /\ HangupSIP)
         \/ \E l \in Legs : \/ EndLegFromModem(a, l) \/ Close(a, l) \/ ClearSipCall(a, l)
                            \/ Closed(a, l) \/ RespondSDP(a, l)
  PROVE  WInv'
  <1>0. \A op \in {"close", "legEnded", "endSession", "locked"} : op \in PlainOps BY DEF PlainOps
  <1>1. CASE CloseSession(a)
    BY <1>0, <1>1, PlainKept DEF CloseSession, workerVars
  <1>2. CASE EndSessionCallFromModem(a)
    <2>1. races \subseteq races' BY <1>2 DEF EndSessionCallFromModem, Race
    <2>. QED BY <1>0, <1>2, <2>1, PlainKept DEF EndSessionCallFromModem, workerVars, sessionVars
  <1>3. CASE a = "web" /\ HangupSIP
    BY <1>0, <1>3, PlainKept DEF HangupSIP, workerVars, sessionVars
  <1>4. ASSUME NEW l \in Legs, EndLegFromModem(a, l) PROVE WInv'
    BY <1>0, <1>4, PlainKept DEF EndLegFromModem, workerVars, sessionVars
  <1>5. ASSUME NEW l \in Legs, Close(a, l) PROVE WInv'
    <2>1. races \subseteq races' BY <1>5 DEF Close, Race
    <2>. QED BY <1>0, <1>5, <2>1, PlainKept DEF Close, workerVars, sessionVars
  <1>6. ASSUME NEW l \in Legs, ClearSipCall(a, l) PROVE WInv'
    BY <1>0, <1>6, PlainKept DEF ClearSipCall, workerVars
  <1>7. ASSUME NEW l \in Legs, Closed(a, l) PROVE WInv'
    BY <1>0, <1>7, PlainKept DEF Closed, workerVars, sessionVars
  <1>8. ASSUME NEW l \in Legs, RespondSDP(a, l) PROVE WInv'
    BY <1>0, <1>8, PlainKept DEF RespondSDP, workerVars, sessionVars
  <1>. QED BY <1>1, <1>2, <1>3, <1>4, <1>5, <1>6, <1>7, <1>8

\* Two or three ordinary steps.
LEMMA CalmSome ==
  ASSUME Typed, NEW a \in Actors, todo[a] # <<>>, NEW steps \in Seq(PlainOps \X (Legs \cup {None})),
         Then(a, steps), Away(a), SessionsKept(a), \A i \in 1..Len(steps) : steps[i][1] # "closeSession"
  PROVE  Calm(a, steps)
  <1>1. Full(a, steps) BY ThenFull
  <1>2. ASSUME NEW i \in 1..Len(steps)
        PROVE  /\ ~Locking(steps[i]) /\ steps[i] # Cfun /\ ~Changing(steps[i]) /\ ~Ending(steps[i])
               /\ ~Lone(a, steps[i]) /\ ~First(steps[i]) /\ steps[i][1] \notin {"reboot", "unready", "set"}
    <2>1. steps[i] \in PlainOps \X (Legs \cup {None}) OBVIOUS
    <2>2. \A t \in PlainOps \X (Legs \cup {None}) :
             /\ ~Locking(t) /\ t # Cfun /\ ~Changing(t) /\ ~Ending(t)
             /\ ~Lone(a, t) /\ ~First(t) /\ t[1] \notin {"reboot", "unready", "set"}
      BY PlainMembers
    <2>. QED BY <2>1, <2>2, Zenon
  <1>3. Len(steps) > 0 => ~Lone(a, steps[1])
    <2>1. Len(steps) \in Nat OBVIOUS
    <2>. QED BY <1>2, <2>1
  <1>4. todo[a][1] # <<"set", Dialing>> BY DEF Away
  <1>5. Neat(a, steps) BY <1>2, <1>3, <1>4 DEF Neat
  <1>. QED BY <1>1, <1>2, <1>5 DEF Calm, Away, SessionsKept

LEMMA LegEndedSteps ==
  ASSUME Typed, NEW a \in Actors, NEW l \in Legs, HandleLegEnded(a, l)
  PROVE  \E steps \in Seq(PlainOps \X (Legs \cup {None})) :
            /\ Then(a, steps) /\ Len(steps) \in {2, 3}
            /\ \A i \in 1..Len(steps) : steps[i] \in {<<"clearSip", l>>, <<"hangup", None>>, <<"closed", l>>}
            /\ l \notin byModem \cup Dials => \E i \in 1..Len(steps) : steps[i] = <<"hangup", None>>
  <1> DEFINE r == <<"clearSip", l>>  h == <<"hangup", None>>  c == <<"closed", l>>
             P == PlainOps \X (Legs \cup {None})
  <1>1. r \in P /\ h \in P /\ c \in P BY DEF PlainOps
  <1>2. \/ l \in byModem \cup Dials /\ Then(a, <<r>> \o <<>> \o <<c>>)
        \/ l \notin byModem \cup Dials /\ Then(a, <<r>> \o <<h>> \o <<c>>)
    BY DEF HandleLegEnded
  <1> HIDE DEF r, h, c, P
  <1> DEFINE two == <<r>> \o <<>> \o <<c>>  three == <<r>> \o <<h>> \o <<c>>
  <1>3. two \in Seq(P) /\ Len(two) = 2 /\ three \in Seq(P) /\ Len(three) = 3
    BY <1>1
  <1>4. /\ two[1] = r /\ two[2] = c /\ three[1] = r /\ three[2] = h /\ three[3] = c
        /\ \A i \in 1..2 : i \in {1, 2}
        /\ \A i \in 1..3 : i \in {1, 2, 3}
    BY <1>1
  <1> HIDE DEF two, three
  <1>5. CASE l \in byModem \cup Dials
    <2>1. \A i \in 1..Len(two) : two[i] \in {r, h, c} BY <1>3, <1>4
    <2>. QED BY <1>2, <1>3, <1>5, <2>1 DEF P, r, h, c, two
  <1>6. CASE l \notin byModem \cup Dials
    <2>1. \A i \in 1..Len(three) : three[i] \in {r, h, c} BY <1>3, <1>4
    <2>2. 2 \in 1..Len(three) /\ three[2] = h BY <1>3, <1>4
    <2>. QED BY <1>2, <1>3, <1>6, <2>1, <2>2 DEF P, r, h, c, three
  <1>. QED BY <1>5, <1>6

\* handleLegEnded, and the Hangup it may lead to.
LEMMA LegEndedFollows ==
  ASSUME IInv, WInv, NEW a \in Actors, NEW l \in Legs, HandleLegEnded(a, l)
  PROVE  WInv'
  <1>0. Typed /\ Doing(a, "legEnded", l) BY DEF IInv, HandleLegEnded
  <1>1. todo[a] # <<>> /\ todo[a][1] = <<"legEnded", l>> BY <1>0, StepFacts
  <1>2. PICK steps \in Seq(PlainOps \X (Legs \cup {None})) :
            /\ Then(a, steps)
            /\ \A i \in 1..Len(steps) : steps[i] \in {<<"clearSip", l>>, <<"hangup", None>>, <<"closed", l>>}
    BY <1>0, LegEndedSteps
  <1>3. Away(a) /\ SessionsKept(a)
    BY <1>1, AwayFacts DEF HandleLegEnded, sessionVars, SessionsKept
  <1>4. \A i \in 1..Len(steps) : steps[i][1] # "closeSession" BY <1>2
  <1>5. Calm(a, steps) BY <1>0, <1>1, <1>2, <1>3, <1>4, CalmSome
  <1>. QED BY <1>5, CalmKept DEF HandleLegEnded, workerVars

-----------------------------------------------------------------------------
(* WInv, action by action.                                                 *)

LEMMA OneStepKept ==
  ASSUME IInv, WInv, NEW a \in Actors, NEW h, NEW y, Doing(a, h, y),
         h \notin {"set", "at", "unlock"}, UNCHANGED <<modem, urcs, call, opMu, uac>>,
         races \subseteq races', SessionsKept(a), NEW t, Then(a, <<t>>),
         ~Locking(t), t # Cfun, Changing(t) => Origin(a), Ending(t) => Ended,
         Lone(a, t) => Lone(a, <<h, y>>), t[1] \notin {"reboot", "unready"}
  PROVE  WInv'
  <1>1. Typed /\ todo[a] # <<>> /\ todo[a][1] = <<h, y>> BY StepFacts DEF IInv
  <1>2. Away(a) BY <1>1, AwayFacts
  <1>3. Calm(a, <<t>>) BY <1>1, <1>2, CalmOne
  <1>. QED BY <1>3, CalmKept

\* The claim of the session's call, and the wait for the phone.
LEMMA ClaimFollows ==
  ASSUME IInv, WInv, NEW a \in Actors, NEW l \in Legs, ClaimSipCall(a, l) \/ WaitAnswer(a, l)
  PROVE  WInv'
  <1>0. Typed BY DEF IInv
  <1>1. CASE ClaimSipCall(a, l)
    <2>1. Doing(a, "claim", l) /\ races \subseteq races' /\ UNCHANGED <<modem, urcs, call, opMu, uac>>
          /\ UNCHANGED ofSession
      BY <1>1 DEF ClaimSipCall, Race, workerVars
    <2>2. l \in Rings \/ l = a BY <1>0, <2>1, StepFacts
    <2>3. SessionsKept(a) BY <1>0, <2>1, StepFacts DEF SessionsKept
    <2>4. CASE Then(a, <<>>) \/ Then(a, <<<<"close", l>>>>)
      <3>1. "close" \in PlainOps BY DEF PlainOps
      <3>. QED BY <2>1, <2>4, <3>1, PlainKept
    <2>5. ASSUME NEW op, Then(a, <<<<op, l>>>>), op = IF l \in Dials THEN "wait" ELSE "claimLine"
          PROVE  WInv'
      <3>1. PICK t : t = <<op, l>> OBVIOUS
      <3>2. t[1] \in {"wait", "claimLine"} BY <2>5, <3>1
      <3>3. ~Locking(t) /\ t # Cfun /\ ~Changing(t) /\ ~Ending(t) /\ t[1] \notin {"reboot", "unready"}
        BY <3>2 DEF Locking, Command, UnlockStep, Cfun, Changing, Ending
      <3>4. Lone(a, t) => Lone(a, <<"claim", l>>)
        <4>1. l \in Dials => l = a BY <2>2, NamesAssumption
        <4>. QED BY <2>5, <3>1, <4>1 DEF Lone
      <3>. QED BY <2>1, <2>3, <2>5, <3>1, <3>3, <3>4, OneStepKept
    <2>6. \/ Then(a, <<>>) \/ Then(a, <<<<"close", l>>>>)
          \/ Then(a, <<<<IF l \in Dials THEN "wait" ELSE "claimLine", l>>>>)
      BY <1>1 DEF ClaimSipCall
    <2>. QED BY <2>4, <2>5, <2>6
  <1>2. CASE WaitAnswer(a, l)
    <2>1. Doing(a, "wait", l) /\ races \subseteq races' /\ UNCHANGED <<modem, urcs, call, opMu, uac>>
          /\ UNCHANGED ofSession
      BY <1>2 DEF WaitAnswer, Race, workerVars, sessionVars
    <2>2. l = a BY <1>0, <2>1, StepFacts
    <2>3. SessionsKept(a) BY <1>0, <2>1, StepFacts DEF SessionsKept
    <2>4. CASE Then(a, <<>>) \/ Then(a, <<<<"close", l>>>>)
      <3>1. "close" \in PlainOps BY DEF PlainOps
      <3>. QED BY <2>1, <2>4, <3>1, PlainKept
    <2>5. CASE Then(a, <<<<"answer", None>>>>)
      <3>1. PICK t : t = <<"answer", None>> OBVIOUS
      <3>3. ~Locking(t) /\ t # Cfun /\ ~Changing(t) /\ ~Ending(t) /\ t[1] \notin {"reboot", "unready"}
        BY <3>1 DEF Locking, Command, UnlockStep, Cfun, Changing, Ending
      <3>4. Lone(a, <<"wait", l>>) BY <2>2 DEF Lone
      <3>. QED BY <2>1, <2>3, <2>5, <3>1, <3>3, <3>4, OneStepKept
    <2>6. Then(a, <<>>) \/ Then(a, <<<<"close", l>>>>) \/ Then(a, <<<<"answer", None>>>>)
      BY <1>2 DEF WaitAnswer
    <2>. QED BY <2>4, <2>5, <2>6
  <1>. QED BY <1>1, <1>2

\* The listener.
LEMMA SyncFollows ==
  ASSUME IInv, WInv, NEW a \in Actors, NEW x, SyncModemState(a, x)
  PROVE  WInv'
  <1>0. Typed BY DEF IInv
  <1>1. Doing(a, "sync", x) /\ races \subseteq races' /\ UNCHANGED <<modem, urcs, call, opMu, uac>>
    BY DEF SyncModemState, Race, workerVars
  <1>2. todo[a] # <<>> /\ todo[a][1] = <<"sync", x>> /\ 1 \in 1..Len(todo[a])
    BY <1>0, <1>1, StepFacts
  <1>3. Origin(a)
    <2>1. Changing(todo[a][1]) BY <1>2 DEF Changing
    <2>. QED BY <1>2, <2>1 DEF WInv, Origins
  <1>4. x.state = "idle" => Ended
    <2>1. x.state = "idle" => Ending(todo[a][1]) BY <1>2 DEF Ending
    <2>. QED BY <1>2, <2>1 DEF WInv, Endings
  <1>5. ASSUME x.state = "idle", Then(a, <<<<"endLeg", active[gw]>>>>), UNCHANGED ofSession
        PROVE  WInv'
    <2>1. PICK t : t = <<"endLeg", active[gw]>> OBVIOUS
    <2>2. ~Locking(t) /\ t # Cfun /\ t[1] \notin {"reboot", "unready"} /\ ~Lone(a, t)
      BY <2>1 DEF Locking, Command, UnlockStep, Cfun, Lone
    <2>3. SessionsKept(a) BY <1>2, <1>5 DEF SessionsKept
    <2>. QED BY <1>1, <1>3, <1>4, <1>5, <2>1, <2>2, <2>3, OneStepKept
  <1>6. ASSUME Then(a, <<>>) \/ Then(a, <<<<"endSession", None>>>>), UNCHANGED ofSession
        PROVE  WInv'
    <2>1. "endSession" \in PlainOps BY DEF PlainOps
    <2>. QED BY <1>1, <1>6, <2>1, PlainKept
  <1>7. ASSUME \E m \in Rings : ofGw[m] = None, StartModemIncomingInvite(a) PROVE WInv'
    <2>1. PICK m \in Rings : /\ ofGw[m] = None /\ Then(a, <<<<"claim", m>>>>)
                             /\ ofSession' = [ofSession EXCEPT ![m] = Ensured]
      BY <1>7 DEF StartModemIncomingInvite
    <2>2. m # a BY <1>2, <2>1 DEF IInv, Order, Fresh, Lined
    <2>3. PICK t : t = <<"claim", m>> OBVIOUS
    <2>4. ~Locking(t) /\ t # Cfun /\ t[1] \notin {"reboot", "unready"} /\ ~Changing(t) /\ ~Ending(t)
      BY <2>3 DEF Locking, Command, UnlockStep, Cfun, Changing, Ending
    <2>5. ~Lone(a, t) BY <2>2, <2>3 DEF Lone
    <2>6. SessionsKept(a)
      <3>1. \A d \in Dials : d # m /\ d \in Legs BY NamesAssumption DEF Legs
      <3>2. ofSession \in [Legs -> Sessions \cup {None}] BY <1>0 DEF Typed, TypeOK
      <3>3. \A d \in Dials : ofSession'[d] = ofSession[d] BY <2>1, <3>1, <3>2
      <3>. QED BY <1>2, <3>3 DEF SessionsKept
    <2>. QED BY <1>1, <2>1, <2>3, <2>4, <2>5, <2>6, OneStepKept
  <1>8. CASE x.state = "idle" /\ up
    <2>1. UNCHANGED ofSession BY <1>8 DEF SyncModemState, sessionVars
    <2>2. CASE active[gw] # None BY <1>5, <1>8, <2>1, <2>2 DEF SyncModemState
    <2>3. CASE active[gw] = None BY <1>6, <1>8, <2>1, <2>3 DEF SyncModemState
    <2>. QED BY <2>2, <2>3
  <1>9. CASE ~(x.state = "idle" /\ up)
    <2>1. \/ (\E m \in Rings : ofGw[m] = None) /\ StartModemIncomingInvite(a)
          \/ Then(a, <<>>) /\ UNCHANGED ofSession
      BY <1>9 DEF SyncModemState, sessionVars
    <2>. QED BY <1>6, <1>7, <2>1
  <1>. QED BY <1>8, <1>9

\* The reboot declares the call idle.
LEMMA RebootFollows ==
  ASSUME IInv, WInv, Reboot
  PROVE  WInv'
  <1> DEFINE a == "web"
  <1>0. Typed /\ a \in Actors BY DEF IInv, Actors
  <1>1. Doing(a, "reboot", None) /\ UNCHANGED <<modem, urcs, call, opMu, uac, races, ofSession>>
    BY DEF Reboot, workerVars, sessionVars
  <1>2. todo[a] # <<>> /\ todo[a][1] = <<"reboot", None>> /\ 1 \in 1..Len(todo[a])
    BY <1>0, <1>1, StepFacts
  <1>3. Rebooting BY <1>2 DEF WInv, RebootGoesOn, Had, HadIn
  <1>4. Origin(a) /\ Ended BY <1>3 DEF Origin, Ended
  <1>5. PICK t : t = <<"set", [call EXCEPT !.state = "idle"]>> OBVIOUS
  <1>6. t[1] = "set" BY <1>5
  <1>7. ~Locking(t) /\ t # Cfun /\ t[1] \notin {"reboot", "unready"} /\ ~Lone(a, t)
    BY <1>6 DEF Locking, Command, UnlockStep, Cfun, Lone
  <1>8. SessionsKept(a) BY <1>1, <1>2 DEF SessionsKept
  <1>9. Then(a, <<t>>) BY <1>5 DEF Reboot
  <1> HIDE DEF a
  <1>. QED BY <1>0, <1>1, <1>4, <1>7, <1>8, <1>9, OneStepKept

\* The goroutine of a ring starts.
LEMMA RingGoes ==
  ASSUME IInv, NEW a \in Actors, NEW l \in Rings, Doing(a, "claimLine", l),
         GoRing(a, l)
  PROVE  /\ Full(a, <<>>) /\ Keeps(a) /\ Pushes(a, {})
         /\ a # l /\ todo[l] = <<>> /\ todo'[l] = <<<<"wait", l>>>> /\ l \in Actors
         /\ \A b \in Actors : b \notin {a, l} => todo'[b] = todo[b]
  <1>0. Typed BY DEF IInv
  <1>1. todo[a] # <<>> /\ todo[a][1] = <<"claimLine", l>> /\ 1 \in 1..Len(todo[a])
    BY <1>0, StepFacts
  <1>2. a # l /\ todo[l] = <<>>
    <2>1. todo[a][1] \in Begins(l) BY <1>1 DEF Begins
    <2>. QED BY <1>1, <2>1 DEF IInv, Order, ClaimsFirst, Lined
  <1>3. todo = [b \in Actors |-> todo[b]] /\ todo[a] \in Seq(StepsOf(a)) /\ l \in Actors
    BY <1>0 DEF Typed, Shape, Actors, Legs
  <1>4. /\ todo'[a] = Tail(todo[a]) /\ todo'[l] = <<<<"wait", l>>>>
        /\ \A b \in Actors : b \notin {a, l} => todo'[b] = todo[b]
    BY <1>2, <1>3 DEF GoRing
  <1> DEFINE t == todo[a]  S == StepsOf(a)  none == <<>>
  <1>5. t \in Seq(S) /\ t # <<>> BY <1>1, <1>3
  <1> HIDE DEF t, S
  <1>6. /\ Len(t) \in Nat /\ Len(Tail(t)) = Len(t) - 1
        /\ \A k \in 1..Len(Tail(t)) : Tail(t)[k] = t[k + 1]
    BY <1>5
  <1>7. Len(none) = 0 /\ \A i \in 1..Len(none) : FALSE OBVIOUS
  <1> HIDE DEF none
  <1>8. Moves(a, none)
    <2> SUFFICES ASSUME NEW i \in 1..Len(todo'[a])
                 PROVE  \E k \in 2..Len(todo[a]) : i = Len(none) + k - 1 /\ todo'[a][i] = todo[a][k]
      BY DEF Moves
    <2>1. i + 1 \in 2..Len(t) /\ i = 0 + (i + 1) - 1 /\ todo'[a][i] = t[i + 1]
      BY <1>4, <1>6 DEF t
    <2>. QED BY <1>7, <2>1 DEF t
  <1>9. Others(a) BY <1>2, <1>4 DEF Others
  <1>10. Went(a, none) BY <1>7, <1>8, <1>9 DEF Went
  <1>11. \A k \in 2..Len(todo[a]) : HadIn(todo'[a], todo[a][k])
    <2> SUFFICES ASSUME NEW k \in 2..Len(t) PROVE \E i \in 1..Len(todo'[a]) : todo'[a][i] = t[k]
      BY DEF t, HadIn
    <2>1. k - 1 \in 1..Len(Tail(t)) /\ (k - 1) + 1 = k BY <1>6
    <2>2. Tail(t)[k - 1] = t[k] BY <1>6, <2>1
    <2>3. todo'[a] = Tail(t) BY <1>4 DEF t
    <2>. QED BY <2>1, <2>2, <2>3
  <1>12. Full(a, none)
    <2>1. Len(todo'[a]) = Len(none) + Len(todo[a]) - 1 BY <1>4, <1>6, <1>7 DEF t
    <2>. QED BY <1>1, <1>10, <1>11, <2>1 DEF Full
  <1>13. Keeps(a) BY <1>0, <1>12, FullKeeps
  <1>14. Pushes(a, {}) BY <1>0, <1>7, <1>10, WentPushes
  <1>15. Full(a, <<>>) BY <1>12 DEF none
  <1>. QED BY <1>2, <1>3, <1>4, <1>13, <1>14, <1>15

\* The claim of the line.
LEMMA ClaimLineFollows ==
  ASSUME IInv, WInv, NEW a \in Actors, NEW l \in Legs, ClaimLine(a, l)
  PROVE  WInv'
  <1>0. Typed BY DEF IInv
  <1>1. Doing(a, "claimLine", l) /\ races \subseteq races' /\ UNCHANGED <<modem, urcs, call, opMu, uac>>
        /\ UNCHANGED ofSession
    BY DEF ClaimLine, Race, workerVars, sessionVars
  <1>2. /\ todo[a] # <<>> /\ todo[a][1] = <<"claimLine", l>>
        /\ l \in Rings \/ (l = a /\ l \in Invites)
    BY <1>0, <1>1, StepFacts
  <1>3. Away(a) /\ SessionsKept(a) BY <1>1, <1>2, AwayFacts DEF SessionsKept
  <1>4. CASE Then(a, (IF l \in Rings THEN <<<<"clearSip", l>>>> ELSE <<>>) \o <<<<"close", l>>>>)
    <2> DEFINE r == <<"clearSip", l>>  c == <<"close", l>>  P == PlainOps \X (Legs \cup {None})
    <2>1. r \in P /\ c \in P /\ r[1] # "closeSession" /\ c[1] # "closeSession" BY DEF PlainOps
    <2>2. Then(a, <<r>> \o <<c>>) \/ Then(a, <<>> \o <<c>>) BY <1>4
    <2> HIDE DEF r, c, P
    <2> DEFINE two == <<r>> \o <<c>>  one == <<>> \o <<c>>
    <2>3. two \in Seq(P) /\ Len(two) = 2 /\ one \in Seq(P) /\ Len(one) = 1 BY <2>1
    <2>4. two[1] = r /\ two[2] = c /\ one[1] = c /\ (\A i \in 1..2 : i \in {1, 2})
          /\ (\A i \in 1..1 : i = 1)
      BY <2>1
    <2> HIDE DEF two, one
    <2>5. (\A i \in 1..Len(two) : two[i][1] # "closeSession")
          /\ \A i \in 1..Len(one) : one[i][1] # "closeSession"
      BY <2>1, <2>3, <2>4
    <2>6. Then(a, two) \/ Then(a, one) BY <2>2 DEF two, one
    <2>7. Calm(a, two) \/ Calm(a, one)
      BY <1>0, <1>2, <1>3, <2>3, <2>5, <2>6, CalmSome DEF P
    <2>. QED BY <1>1, <2>7, CalmKept
  <1>5. CASE l \in Rings /\ GoRing(a, l)
    <2> DEFINE none == <<>>
    <2>0. Full(a, <<>>) BY <1>1, <1>5, RingGoes
    <2>1. Full(a, none) BY <2>0
    <2>2. Len(none) = 0 /\ \A i \in 1..Len(none) : FALSE OBVIOUS
    <2> HIDE DEF none
    <2>3. Neat(a, none) BY <1>2, <2>2 DEF Neat
    <2>4. Calm(a, none) BY <1>3, <2>1, <2>2, <2>3 DEF Calm, Away, SessionsKept
    <2>. QED BY <1>1, <2>4, CalmKept
  <1>6. CASE l \notin Rings /\ Then(a, <<<<"dial", None>>, <<"respond", l>>>>)
    <2> DEFINE d == <<"dial", None>>  r == <<"respond", l>>
    <2>1. d[1] = "dial" /\ r[1] = "respond" OBVIOUS
    <2>2. ~Locking(d) /\ d # Cfun /\ ~Changing(d) /\ ~Ending(d)
      BY <2>1 DEF Locking, Command, UnlockStep, Cfun, Changing, Ending
    <2>3. ~Locking(r) /\ r # Cfun /\ ~Changing(r) /\ ~Ending(r) /\ ~First(r)
      BY <2>1 DEF Locking, Command, UnlockStep, Cfun, Changing, Ending, First
    <2> DEFINE two == <<d, r>>
    <2>5. Then(a, two) /\ two \in Seq({d, r}) BY <1>6
    <2> HIDE DEF d, r
    <2>6. Len(two) = 2 /\ two[1] = d /\ two[2] = r OBVIOUS
    <2> HIDE DEF two
    <2>7. \A i \in 1..Len(two) : (i = 1 /\ two[i] = d) \/ (i = 2 /\ two[i] = r) BY <2>6
    <2>8. Full(a, two) BY <1>0, <1>2, <2>5, ThenFull
    <2>9. Lone(a, todo[a][1]) /\ todo[a][1] # <<"set", Dialing>> BY <1>2, <1>6 DEF Lone
    <2>10. Neat(a, two)
      <3>1. \A i \in 1..Len(two) : /\ First(two[i]) => i = 1
                                   /\ two[i][1] \notin {"set", "closeSession"}
                                   /\ two[i] # Cfun
                                   /\ i > 1 => two[i][1] = "respond"
        BY <2>1, <2>2, <2>3, <2>7
      <3>. QED BY <2>9, <3>1 DEF Neat
    <2>11. \A i \in 1..Len(two) : /\ ~Locking(two[i]) /\ ~Changing(two[i]) /\ ~Ending(two[i])
                                  /\ two[i][1] \notin {"reboot", "unready"}
      BY <2>1, <2>2, <2>3, <2>7
    <2>12. Calm(a, two) BY <1>3, <2>8, <2>10, <2>11 DEF Calm, Away, SessionsKept
    <2>. QED BY <1>1, <2>12, CalmKept
  <1>. QED BY <1>4, <1>5, <1>6 DEF ClaimLine, GoRing

\* A goroutine starts with one ordinary step, or with none.
LEMMA StartNoneKept ==
  ASSUME IInv, WInv, NEW a \in Actors, todo[a] = <<>>, UNCHANGED <<modem, urcs, call, opMu, uac>>,
         races \subseteq races', SessionsKept(a), todo' = [todo EXCEPT ![a] = <<>>]
  PROVE  WInv'
  <1>0. Typed BY DEF IInv
  <1> DEFINE none == <<>>
  <1>1. todo' = [todo EXCEPT ![a] = none] /\ none \in Seq({}) OBVIOUS
  <1>2. Len(none) = 0 /\ \A i \in 1..Len(none) : FALSE OBVIOUS
  <1> HIDE DEF none
  <1>3. Calm(a, none) BY <1>0, <1>1, <1>2, CalmStart
  <1>. QED BY <1>3, CalmKept

LEMMA StartOneKept ==
  ASSUME IInv, WInv, NEW a \in Actors, todo[a] = <<>>, UNCHANGED <<modem, urcs, call, opMu, uac>>,
         races \subseteq races', SessionsKept(a),
         NEW op \in PlainOps \cup {"claim", "dial"}, NEW x, todo' = [todo EXCEPT ![a] = <<<<op, x>>>>]
  PROVE  WInv'
  <1>0. Typed BY DEF IInv
  <1>1. PICK t : t = <<op, x>> OBVIOUS
  <1>2. ~Locking(t) /\ t # Cfun /\ ~Changing(t) /\ ~Ending(t) /\ t[1] \notin {"reboot", "unready"}
    <2>1. CASE op \in PlainOps BY <1>1, <2>1, PlainFacts
    <2>2. CASE op \in {"claim", "dial"}
      BY <1>1, <2>2 DEF Locking, Command, UnlockStep, Cfun, Changing, Ending
    <2>. QED BY <2>1, <2>2
  <1> DEFINE one == <<t>>
  <1>3. todo' = [todo EXCEPT ![a] = one] /\ one \in Seq({t}) BY <1>1
  <1>4. Len(one) = 1 /\ one[1] = t OBVIOUS
  <1> HIDE DEF one
  <1>5. \A i \in 1..Len(one) : i = 1 /\ one[i] = t /\ ~(i > 1) BY <1>4
  <1>6. Calm(a, one) BY <1>0, <1>2, <1>3, <1>4, <1>5, CalmStart
  <1>. QED BY <1>6, CalmKept

LEMMA Ranges ==
  /\ \A i \in 1..3 : i \in {1, 2, 3}
  /\ \A i \in 1..2 : i \in {1, 2}
  /\ \A i \in 1..1 : i = 1
  /\ 1 \in 1..1 /\ 1 \in 1..2 /\ 2 \in 1..2 /\ 1 \in 1..3 /\ 2 \in 1..3 /\ 3 \in 1..3
  OBVIOUS

\* What starts a goroutine, and a new gateway.
LEMMA NetworkFollows ==
  ASSUME IInv, WInv, (\E i \in Invites : OnInvite(i)) \/ (\E l \in Legs : OnBye(l))
                     \/ SyncSIPInbound \/ \E d \in Dials : DialSIP(d)
  PROVE  WInv'
  <1>0. Typed /\ ofSession \in [Legs -> Sessions \cup {None}] BY DEF IInv, Typed, TypeOK
  <1>01. None \notin Sessions BY NamesAssumption
  <1>1. ASSUME NEW i \in Invites, OnInvite(i) PROVE WInv'
    <2>1. i \in Actors /\ todo[i] = <<>>
      BY <1>1 DEF OnInvite, Actors, Legs, IInv, Order, Fresh, Lined
    <2>2. \A d \in Dials : d # i /\ d \in Legs BY NamesAssumption DEF Legs
    <2>3. \A d \in Dials : ofSession'[d] = ofSession[d] BY <1>0, <1>1, <2>2 DEF OnInvite
    <2>4. SessionsKept(i) BY <2>2, <2>3 DEF SessionsKept
    <2>5. todo' = [todo EXCEPT ![i] = <<<<"claim", i>>>>] /\ UNCHANGED <<modem, urcs, call, opMu, uac, races>>
      BY <1>1 DEF OnInvite, workerVars
    <2>. QED BY <2>1, <2>4, <2>5, StartOneKept
  <1>2. ASSUME NEW l \in Legs, OnBye(l) PROVE WInv'
    <2>1. "bye" \in Actors /\ todo["bye"] = <<>> BY <1>2 DEF OnBye, Actors
    <2>2. "bye" \notin Dials BY NamesAssumption DEF Legs
    <2>3. SessionsKept("bye") BY <1>2, <2>2 DEF SessionsKept, OnBye, sessionVars
    <2>4. "close" \in PlainOps BY DEF PlainOps
    <2>5. todo' = [todo EXCEPT !["bye"] = <<<<"close", l>>>>] /\ UNCHANGED <<modem, urcs, call, opMu, uac, races>>
      BY <1>2 DEF OnBye, workerVars
    <2>. QED BY <2>1, <2>3, <2>4, <2>5, StartOneKept
  <1>3. CASE SyncSIPInbound
    <2>1. "sync" \in Actors /\ todo["sync"] = <<>> BY <1>3 DEF SyncSIPInbound, Actors
    <2>2. "sync" \notin Dials BY NamesAssumption DEF Legs
    <2>3. SessionsKept("sync") BY <1>3, <2>2 DEF SessionsKept, SyncSIPInbound, sessionVars
    <2>4. "close" \in PlainOps /\ "newGateway" \in PlainOps BY DEF PlainOps
    <2>5. \/ todo' = [todo EXCEPT !["sync"] = NewGateway]
          \/ todo' = [todo EXCEPT !["sync"] = <<>> \o NewGateway]
          \/ \E x : todo' = [todo EXCEPT !["sync"] = <<<<"close", x>>>> \o NewGateway]
      BY <1>3 DEF SyncSIPInbound, GatewayClose
    <2>6. UNCHANGED <<modem, urcs, call, opMu, uac, races>> BY <1>3 DEF SyncSIPInbound, workerVars
    <2>7. CASE todo' = [todo EXCEPT !["sync"] = NewGateway]
      BY <2>1, <2>3, <2>4, <2>6, <2>7, StartOneKept DEF NewGateway
    <2>9. <<>> \o NewGateway = NewGateway BY DEF NewGateway
    <2>8. ASSUME NEW x, todo' = [todo EXCEPT !["sync"] = <<<<"close", x>>>> \o NewGateway] PROVE WInv'
      <3> DEFINE c == <<"close", x>>  n == <<"newGateway", None>>  two == <<c, n>>
      <3>1. todo' = [todo EXCEPT !["sync"] = two] BY <2>8, PairConcat DEF NewGateway
      <3>2. /\ ~Locking(c) /\ c # Cfun /\ ~Changing(c) /\ ~Ending(c) /\ ~Lone("sync", c) /\ ~First(c)
            /\ c[1] = "close"
        BY <2>4, PlainFacts
      <3>3. /\ ~Locking(n) /\ n # Cfun /\ ~Changing(n) /\ ~Ending(n) /\ ~Lone("sync", n) /\ ~First(n)
            /\ n[1] = "newGateway"
        BY <2>4, PlainFacts
      <3>4. Len(two) = 2 /\ two[1] = c /\ two[2] = n /\ two \in Seq({c, n}) OBVIOUS
      <3> HIDE DEF c, n, two
      <3>8. Len(two) = 2 BY <3>4
      <3>7. \A i \in 1..Len(two) : i = 1 \/ i = 2 BY <3>8, Ranges
      <3>5. \A i \in 1..Len(two) : (i = 1 /\ two[i] = c) \/ (i = 2 /\ two[i] = n) BY <3>4, <3>7
      <3>6. Calm("sync", two) BY <1>0, <2>1, <2>3, <3>1, <3>2, <3>3, <3>4, <3>5, CalmStart
      <3>. QED BY <2>1, <2>6, <3>6, CalmKept
    <2>. QED BY <2>5, <2>7, <2>8, <2>9
  <1>4. ASSUME NEW d \in Dials, DialSIP(d) PROVE WInv'
    <2>1. d \in Actors /\ d \in Legs /\ todo[d] = <<>>
      BY <1>4 DEF DialSIP, Actors, Legs, WInv, DialsFresh
    <2>2. ofSession'[d] = Ensured /\ \A e \in Dials : e # d => ofSession'[e] = ofSession[e]
      BY <1>0, <1>4, <2>1 DEF DialSIP, Legs
    <2>3. ofSession'[d] # None BY <1>01, <1>4, <2>2 DEF DialSIP, EnsureSession
    <2>4. SessionsKept(d) BY <2>2, <2>3 DEF SessionsKept
    <2>5. todo' = [todo EXCEPT ![d] = <<<<"claim", d>>>>] /\ UNCHANGED <<modem, urcs, call, opMu, uac, races>>
      BY <1>4 DEF DialSIP, workerVars
    <2>. QED BY <2>1, <2>4, <2>5, StartOneKept
  <1>. QED BY <1>1, <1>2, <1>3, <1>4

\* The gateway the sync loop makes after it closed the old one.
LEMMA NewGatewayFollows ==
  ASSUME IInv, WInv, NewSIPInboundGateway
  PROVE  WInv'
  <1>1. "sync" \in Actors BY DEF Actors
  <1>. QED BY <1>1, PlainKept DEF NewSIPInboundGateway, workerVars, sessionVars

\* The device is not ready because of a reboot.
LEMMA UnreadyFollows ==
  ASSUME IInv, WInv, SetUACReady
  PROVE  WInv'
  <1> DEFINE a == "web"
  <1>0. Typed /\ a \in Actors BY DEF IInv, Actors
  <1>1. /\ Doing(a, "unready", None) /\ UNCHANGED <<modem, urcs, call, opMu, races, ofSession>>
        /\ Then(a, <<>>) /\ (uac' = uac \/ uac' = "unready")
    BY DEF SetUACReady, sessionVars
  <1>2. todo[a] # <<>> /\ todo[a][1] = <<"unready", None>> /\ 1 \in 1..Len(todo[a])
    BY <1>0, <1>1, StepFacts
  <1>3. Rebooting BY <1>2 DEF WInv, RebootGoesOn, Had, HadIn
  <1>4. Away(a) /\ SessionsKept(a) BY <1>0, <1>1, <1>2, AwayFacts DEF SessionsKept
  <1> HIDE DEF a
  <1>5. Calm(a, <<>>) BY <1>0, <1>1, <1>2, <1>4, CalmNone
  <1>. QED BY <1>0, <1>1, <1>3, <1>5, CalmKept

\* The requests of the console.
LEMMA WebFollows ==
  ASSUME IInv, WInv, WebDial \/ WebHangup \/ WebReboot
  PROVE  WInv'
  <1> DEFINE a == "web"
  <1>0. Typed /\ a \in Actors /\ a \notin Dials BY NamesAssumption DEF IInv, Actors, Legs
  <1>1. SessionsKept(a)
    BY <1>0 DEF WebDial, WebHangup, WebReboot, sessionVars, SessionsKept
  <1>2. ASSUME NEW steps, Request(steps)
        PROVE  /\ UNCHANGED <<modem, urcs, call, opMu, uac, races>> /\ todo[a] = <<>>
               /\ todo' = [todo EXCEPT ![a] = steps]
    BY <1>2 DEF Request, workerVars
  <1>3. ASSUME NEW op \in {"dial", "closeSession", "hangupSip"}, Request(<<<<op, None>>>>)
        PROVE  WInv'
    <2>1. op \in PlainOps \cup {"claim", "dial"} BY <1>3 DEF PlainOps
    <2>. QED BY <1>0, <1>1, <1>2, <1>3, <2>1, StartOneKept
  <1> DEFINE h == <<"hangup", None>>  s == <<"closeSession", None>>  r == <<"reboot", None>>
             u == <<"unready", None>>  c == Cfun
  <1>4. /\ h[1] = "hangup" /\ s[1] = "closeSession" /\ r[1] = "reboot" /\ u[1] = "unready"
        /\ c[1] = "at" /\ c[2] = "CFUN"
    BY DEF Cfun
  <1>5. /\ ~Locking(h) /\ ~Locking(s) /\ ~Locking(r) /\ ~Locking(c) /\ ~Changing(h) /\ ~Changing(s)
        /\ ~Changing(r) /\ ~Changing(c) /\ ~Ending(h) /\ ~Ending(s) /\ ~Ending(r) /\ ~Ending(c)
        /\ ~Locking(u) /\ ~Changing(u) /\ ~Ending(u)
    BY <1>4 DEF Locking, Command, UnlockStep, Changing, Ending
  <1>6. /\ ~Lone(a, h) /\ ~Lone(a, s) /\ ~First(h) /\ ~First(s) /\ ~First(r) /\ ~First(c)
        /\ ~First(u) /\ h # c /\ s # c /\ r # c /\ u # c
    BY <1>4 DEF Lone, First, Command
  <1>7. CASE Request(<<<<"hangup", None>>, <<"closeSession", None>>>>)
    <2> DEFINE two == <<h, s>>
    <2>1. todo' = [todo EXCEPT ![a] = two] /\ two \in Seq({h, s}) BY <1>2, <1>7
    <2>2. todo[a] = <<>> /\ UNCHANGED <<modem, urcs, call, opMu, uac, races>> BY <1>2, <1>7
    <2> HIDE DEF h, s, r, u, c, a
    <2>3. Len(two) = 2 /\ two[1] = h /\ two[2] = s OBVIOUS
    <2> HIDE DEF two
    <2>4. \A i \in 1..Len(two) : (i = 1 /\ two[i] = h) \/ (i = 2 /\ two[i] = s) BY <2>3
    <2>5. \A i \in 1..Len(two) :
             /\ ~Locking(two[i]) /\ ~Changing(two[i]) /\ ~Ending(two[i]) /\ ~First(two[i])
             /\ two[i][1] = "closeSession" => i = Len(two)
             /\ two[i] # Cfun /\ ~Lone(a, two[1]) /\ two[i][1] \notin {"reboot", "unready"}
      BY <1>4, <1>5, <1>6, <2>3, <2>4 DEF c
    <2>6. Calm(a, two) BY <1>0, <1>1, <2>1, <2>2, <2>5, CalmStart
    <2>. QED BY <1>0, <2>2, <2>6, CalmKept
  <1>8. CASE Request(<<<<"closeSession", None>>, <<"reboot", None>>, <<"unready", None>>,
                  <<"at", "CFUN">>>>)
    <2> DEFINE four == <<s, r, u, c>>
    <2>1. todo' = [todo EXCEPT ![a] = four] /\ four \in Seq({s, r, u, c}) BY <1>2, <1>8 DEF Cfun
    <2>2. todo[a] = <<>> /\ UNCHANGED <<modem, urcs, call, opMu, uac, races>> BY <1>2, <1>8
    <2>10. a = "web" /\ c = Cfun OBVIOUS
    <2> HIDE DEF h, s, r, u, c, a
    <2>3. Len(four) = 4 /\ four[1] = s /\ four[2] = r /\ four[3] = u /\ four[4] = c OBVIOUS
    <2> HIDE DEF four
    <2>4. \A i \in 1..Len(four) :
             \/ i = 1 /\ four[i] = s
             \/ i = 2 /\ four[i] = r
             \/ i = 3 /\ four[i] = u
             \/ i = 4 /\ four[i] = c
      BY <2>3
    <2>5. \A i \in 1..Len(four) :
             /\ ~Locking(four[i]) /\ ~Changing(four[i]) /\ ~Ending(four[i]) /\ ~First(four[i])
             /\ four[i][1] = "closeSession" => i = 1
             /\ four[i] = Cfun => i = Len(four)
             /\ ~Lone(a, four[1])
      BY <1>4, <1>5, <1>6, <2>3, <2>4, <2>10
    <2>6. HadIn(four, c) BY <2>3 DEF HadIn
    <2>7. HadIn(todo'[a], c) BY <1>0, <2>1, <2>2, <2>6, StartFull
    <2>8. Rebooting' BY <2>7, <2>10 DEF Rebooting, Had, HadIn, Cfun
    <2>9. Calm(a, four) BY <1>0, <1>1, <2>1, <2>2, <2>5, <2>8, CalmStart
    <2>. QED BY <1>0, <2>2, <2>9, CalmKept
  <1>9. CASE WebDial BY <1>3, <1>9 DEF WebDial
  <1>10. CASE WebHangup BY <1>3, <1>7, <1>10 DEF WebHangup
  <1>11. CASE WebReboot BY <1>8, <1>11 DEF WebReboot
  <1>. QED BY <1>9, <1>10, <1>11

-----------------------------------------------------------------------------
LEMMA EndingsMoved ==
  ASSUME Typed, NEW a \in Actors, NEW steps, Went(a, steps),
         \A b \in Actors : \A i \in 1..Len(todo[b]) :
             Ending(todo[b][i]) /\ (b = a => i > 1) => Ended',
         \A i \in 1..Len(steps) : Ending(steps[i]) => Ended'
  PROVE  Endings'
  <1> SUFFICES ASSUME NEW b \in Actors, NEW i \in 1..Len(todo'[b]), Ending(todo'[b][i])
               PROVE  Ended'
    BY DEF Endings, Ending
  <1>1. ~(i = 1 /\ todo'[b][1] = <<"wait", b>>) BY DEF Ending
  <1>2. CASE b # a /\ i \in 1..Len(todo[b]) /\ todo'[b] = todo[b] BY <1>2
  <1>3. ASSUME b = a, NEW k \in 1..Len(todo[a]), k > 1, todo'[a][i] = todo[a][k] PROVE Ended'
    BY <1>3
  <1>. QED BY <1>1, <1>2, <1>3, Elements

\* A step of the worker's call control.
Works(a, steps) ==
    /\ Full(a, steps) \/ (Dropped(a, steps) /\ Keeps(a))
    /\ Neat(a, steps) /\ OpMoves(a)
    /\ \A i \in 1..Len(steps) :
          /\ Locking(steps[i]) =>
                /\ opMu' = a
                /\ \A j \in 1..Len(steps) : Locking(steps[j]) => i = j
                /\ opMu = None \/ (todo[a] # <<>> /\ Locking(todo[a][1]))
          /\ Changing(steps[i]) => Origin(a)'
          /\ Ending(steps[i]) => Ended'
          /\ steps[i][1] \notin {"reboot", "unready"}
    /\ \/ Ended => Ended'
       \/ \A b \in Actors : \A i \in 1..Len(todo[b]) :
             Ending(todo[b][i]) /\ (b = a => i > 1) => Ended'
    /\ ofSession' = ofSession /\ (a \in Dials => todo[a] # <<>>)

LEMMA WorksGoes ==
  ASSUME Typed, NEW a \in Actors, NEW steps, Works(a, steps)
  PROVE  Keeps(a) /\ Went(a, steps)
  <1>1. CASE Full(a, steps) BY <1>1, FullKeeps DEF Full
  <1>2. CASE Dropped(a, steps) /\ Keeps(a) BY <1>2 DEF Dropped
  <1>. QED BY <1>1, <1>2 DEF Works

LEMMA WorksKept ==
  ASSUME IInv, WInv, NEW a \in Actors, NEW steps, Works(a, steps),
         EndComes', CallComes', (NoCarrier => ~InCall)', Unready'
  PROVE  WInv'
  <1> USE DEF WInv
  <1>0. Typed BY DEF IInv
  <1>1. Keeps(a) /\ Went(a, steps) BY <1>0, WorksGoes
  <1>2. Places' BY <1>0, PlacesKept DEF Works
  <1>3. OpMoves(a) BY DEF Works
  <1>4. Locks' BY <1>0, <1>1, LocksKept DEF Works, OpMoves
  <1>5. Origins' BY <1>0, <1>1, <1>3, OriginsKept DEF Works
  <1>6. Endings'
    <2>1. CASE Ended => Ended' BY <1>0, <1>1, <2>1, EndingsKept DEF Works
    <2>2. CASE \A b \in Actors : \A i \in 1..Len(todo[b]) :
                  Ending(todo[b][i]) /\ (b = a => i > 1) => Ended'
      BY <1>0, <1>1, <2>2, EndingsMoved DEF Works
    <2>. QED BY <2>1, <2>2 DEF Works
  <1>7. DialsFresh' BY <1>0, <1>1, DialsFreshKept DEF Works, Went
  <1>8. RebootGoesOn' BY <1>0, <1>1, RebootGoesOnKept DEF Works
  <1>. QED BY <1>2, <1>4, <1>5, <1>6, <1>7, <1>8

\* What is on the way to the worker's state stays there, unless it is what is done.
LEMMA SetsKept ==
  ASSUME Typed, NEW a \in Actors, Keeps(a), todo[a] # <<>> => todo[a][1][1] # "set"
  PROVE  /\ \A b \in Actors : \A x : Had(b, <<"set", x>>) => Had(b, <<"set", x>>)'
         /\ \A x : Has(<<"set", x>>) => Has(<<"set", x>>)'
  <1>1. \A b \in Actors : \A x : Had(b, <<"set", x>>) => HadIn(todo'[b], <<"set", x>>)
    <2> SUFFICES ASSUME NEW b \in Actors, NEW x, Had(b, <<"set", x>>)
                 PROVE  HadIn(todo'[b], <<"set", x>>)
      OBVIOUS
    <2>1. todo[b] = <<>> => Len(todo[b]) = 0 OBVIOUS
    <2>2. todo[b] # <<>> BY <2>1 DEF Had, HadIn
    <2>3. b = a => <<"set", x>> # todo[a][1] BY <2>2
    <2>. QED BY <2>3 DEF Keeps
  <1>2. \A b \in Actors : \A x : Had(b, <<"set", x>>) => Had(b, <<"set", x>>)' BY <1>1 DEF Had, HadIn
  <1>. QED BY <1>2 DEF Has

\* The device stays as ready as it was.
LEMMA DeviceKept ==
  ASSUME Unready, uac' = uac, races \subseteq races', Rebooting => Rebooting', InCall' => InCall
  PROVE  Unready'
  BY LateKept DEF Unready

LEMMA EndedKept ==
  ASSUME races \subseteq races', Rebooting => Rebooting', InCall' => InCall, Ended
  PROVE  Ended'
  BY LateKept DEF Ended

\* Notify puts on at most the report of an end or of a ring.
LEMMA SetFollows ==
  ASSUME IInv, WInv, NEW a \in Actors, NEW x, SetCallState(a, x)
  PROVE  WInv'
  <1>0. Typed BY DEF IInv
  <1>1. /\ Doing(a, "set", x) /\ races \subseteq races'
        /\ UNCHANGED <<modem, urcs, opMu, uac, ofSession>> /\ call' = x
    BY DEF SetCallState, Race, sessionVars
  <1>2. /\ todo[a] # <<>> /\ todo[a][1] = <<"set", x>> /\ 1 \in 1..Len(todo[a]) /\ x \in CallStates
    BY <1>0, <1>1, StepFacts
  <1>3. ~Locking(todo[a][1]) /\ todo[a][1] # Cfun
    BY <1>2 DEF Locking, Command, UnlockStep, Cfun
  <1> DEFINE y == Reported(x)  t == <<"sync", y>>
  <1>4. Then(a, <<>>) \/ Then(a, <<t>>) BY DEF SetCallState, Notify
  <1>17. y.state = "idle" => x.state = "idle" \/ uac # "ready" BY DEF Reported
  <1> HIDE DEF y
  <1>5. Keeps(a) BY <1>0, <1>2, <1>4, ThenNone, ThenOne
  <1>6. Rebooting => Rebooting' BY <1>3, <1>5, RebootingKept
  <1>7. (InCall' <=> InCall) /\ (NoCarrier' <=> NoCarrier) BY <1>1 DEF InCall, NoCarrier
  <1>8. Ended => Ended' BY <1>1, <1>6, <1>7, EndedKept
  <1>9. OpMoves(a) BY <1>1 DEF OpMoves
  <1>10. Origin(a)'
    <2>1. Changing(todo[a][1]) BY <1>2 DEF Changing
    <2>2. Origin(a) BY <1>2, <2>1 DEF WInv, Origins
    <2>. QED BY <1>0, <1>2, <1>3, <1>5, <1>9, <2>2, OriginKept DEF WInv
  <1>11. x.state = "idle" => Ended
    <2>1. x.state = "idle" => Ending(todo[a][1]) BY <1>2 DEF Ending
    <2>. QED BY <1>2, <2>1 DEF WInv, Endings
  <1>18. Unready' BY <1>1, <1>6, <1>7, DeviceKept DEF WInv
  <1>19. y.state = "idle" => Ended
    <2>1. uac \in {"ready", "unready", "gone"} BY <1>0 DEF Typed, TypeOK
    <2>2. uac # "ready" => Ended BY <2>1 DEF WInv, Unready, Ended
    <2>. QED BY <1>11, <1>17, <2>2
  <1>12. EndComes'
    <2>1. modem = "none" /\ x.state # "idle" /\ ~NoCarrier => "late" \in races'
      BY DEF SetCallState, Race, NoCarrier
    <2>. QED BY <1>1, <1>7, <2>1 DEF EndComes, Unless
  <1>13. CallComes'
    <2>1. InCall' /\ x.state = "idle" => Timeout' \/ Rebooting'
      BY <1>1, <1>6, <1>7, <1>11, LateKept DEF Ended
    <2>. QED BY <1>1, <2>1 DEF CallComes
  <1>14. (NoCarrier => ~InCall)' BY <1>7 DEF WInv
  <1>15. CASE Then(a, <<>>)
    <2> DEFINE none == <<>>
    <2>1. Full(a, none) BY <1>0, <1>2, <1>15, ThenNone
    <2>2. Len(none) = 0 /\ \A i \in 1..Len(none) : FALSE OBVIOUS
    <2> HIDE DEF none
    <2>3. Neat(a, none) BY <2>2 DEF Neat
    <2>4. Works(a, none) BY <1>1, <1>2, <1>8, <1>9, <2>1, <2>2, <2>3 DEF Works
    <2>. QED BY <1>12, <1>13, <1>14, <1>18, <2>4, WorksKept
  <1>16. CASE Then(a, <<t>>)
    <2> DEFINE one == <<t>>
    <2>1. Full(a, one) BY <1>0, <1>2, <1>16, ThenOne
    <2>2. Len(one) = 1 /\ one[1] = t OBVIOUS
    <2>3. t[1] = "sync" /\ t[2] = y OBVIOUS
    <2> HIDE DEF one, t
    <2>4. ~Locking(t) /\ t # Cfun /\ ~Lone(a, t)
      BY <2>3 DEF Locking, Command, UnlockStep, Cfun, Lone
    <2>5. Ending(t) => Ended' BY <1>8, <1>19, <2>3 DEF Ending
    <2>6. \A i \in 1..Len(one) : i = 1 /\ one[i] = t BY <2>2
    <2>8. Neat(a, one) BY <2>2, <2>3, <2>4, <2>6 DEF Neat
    <2>9. Works(a, one) BY <1>1, <1>2, <1>8, <1>9, <1>10, <2>1, <2>3, <2>4, <2>5, <2>6, <2>8 DEF Works
    <2>. QED BY <1>12, <1>13, <1>14, <1>18, <2>9, WorksKept
  <1>. QED BY <1>4, <1>15, <1>16

\* A step of Dial, Answer or Hangup that takes or releases callOpMu, or goes on
\* without it.
LEMMA LockMoves ==
  ASSUME IInv, WInv, NEW a \in Actors, todo[a] # <<>>, todo[a][1][1] # "set", todo[a][1] # Cfun,
         NEW steps, Works(a, steps), UNCHANGED <<modem, urcs, call, uac, races>>,
         InCall /\ call.state = "idle" => Timeout \/ Rebooting
  PROVE  WInv'
  <1>0. Typed BY DEF IInv
  <1>1. Keeps(a) BY <1>0, WorksGoes
  <1>2. Rebooting => Rebooting' BY <1>1, RebootingKept
  <1>3. (InCall' <=> InCall) /\ (NoCarrier' <=> NoCarrier) /\ (Timeout' <=> Timeout)
        /\ (Unless({"late", "timeout"})' <=> Unless({"late", "timeout"}))
    BY DEF InCall, NoCarrier, Timeout, Unless
  <1>4. \A x : Has(<<"set", x>>) => Has(<<"set", x>>)' BY <1>0, <1>1, SetsKept
  <1>5. EndComes' BY <1>3, <1>4 DEF WInv, EndComes
  <1>6. CallComes' BY <1>2, <1>3 DEF CallComes
  <1>7. Unready' BY <1>2, <1>3, DeviceKept DEF WInv
  <1>. QED BY <1>3, <1>5, <1>6, <1>7, WorksKept DEF WInv

\* The holder of callOpMu is at a command: it has nothing else to change.
LEMMA CommandAlone ==
  ASSUME Typed, Places, Locks, NEW a \in Actors, todo[a] # <<>>, Locking(todo[a][1])
  PROVE  \A i \in 1..Len(todo[a]) : todo[a][i][1] # "set"
  <1>1. 1 \in 1..Len(todo[a]) BY StackFacts
  <1>2. todo[a][1][1] # "set" BY DEF Locking, Command, UnlockStep
  <1>3. Locking(UnlockStep) BY DEF Locking
  <1>. QED BY <1>1, <1>2, <1>3 DEF Places, Locks

LEMMA NotHad ==
  ASSUME NEW a, \A i \in 1..Len(todo[a]) : todo[a][i][1] # "set", NEW x
  PROVE  ~Had(a, <<"set", x>>)
  BY DEF Had, HadIn

\* The holder of callOpMu lets it go.
LEMMA UnlockFollows ==
  ASSUME IInv, WInv, NEW a \in Actors, Unlock(a)
  PROVE  WInv'
  <1>0. Typed BY DEF IInv
  <1>1. /\ Doing(a, "unlock", None) /\ UNCHANGED <<modem, urcs, call, uac, races, ofSession>>
        /\ opMu' = None /\ Then(a, <<>>)
    BY DEF Unlock, sessionVars
  <1>2. todo[a] # <<>> /\ todo[a][1] = <<"unlock", None>> /\ 1 \in 1..Len(todo[a])
    BY <1>0, <1>1, StepFacts
  <1>3. Locking(todo[a][1]) /\ todo[a][1] # Cfun /\ todo[a][1][1] # "set"
    BY <1>2 DEF Locking, UnlockStep, Cfun
  <1>4. opMu = a BY <1>2, <1>3 DEF WInv, Locks
  <1>5. InCall /\ call.state = "idle" => Timeout \/ Rebooting
    <2>1. \A x : ~Had(a, <<"set", x>>) BY <1>0, <1>2, <1>3, CommandAlone, NotHad DEF WInv
    <2>. QED BY <1>4, <2>1 DEF WInv, CallComes
  <1> DEFINE none == <<>>
  <1>6. Full(a, none) /\ Keeps(a) BY <1>0, <1>1, <1>2, ThenNone
  <1>7. Len(none) = 0 /\ \A i \in 1..Len(none) : FALSE OBVIOUS
  <1> HIDE DEF none
  <1>8. Neat(a, none) BY <1>7 DEF Neat
  <1>9. Rebooting => Rebooting' BY <1>3, <1>6, RebootingKept
  <1>10. Ended => Ended'
    <2>1. InCall' => InCall BY <1>1 DEF InCall
    <2>. QED BY <1>1, <1>9, <2>1, EndedKept
  <1>11. Works(a, none) BY <1>1, <1>2, <1>3, <1>6, <1>7, <1>8, <1>10 DEF Works, OpMoves
  <1>. QED BY <1>1, <1>2, <1>3, <1>5, <1>11, LockMoves

\* Dial, Answer and Hangup take callOpMu for a command.
LEMMA TakeFollows ==
  ASSUME IInv, WInv, NEW a \in Actors, NEW op \in {"dial", "answer", "hangup"}, Doing(a, op, None),
         opMu = None, opMu' = a, NEW c \in {"ATD", "ATA", "ATH", "QPCMV"}, Then(a, <<<<"at", c>>>>),
         UNCHANGED <<modem, urcs, call, uac, races, ofSession>>,
         c \in {"ATD", "QPCMV"} => call.state = "idle",
         c \in {"ATD", "ATA"} => op # "hangup"
  PROVE  WInv'
  <1>0. Typed BY DEF IInv
  <1>2. todo[a] # <<>> /\ todo[a][1] = <<op, None>> /\ 1 \in 1..Len(todo[a])
    BY <1>0, StepFacts
  <1>3. ~Locking(todo[a][1]) /\ todo[a][1] # Cfun /\ todo[a][1][1] # "set"
    BY <1>2 DEF Locking, UnlockStep, Cfun, Command
  <1>5. InCall /\ call.state = "idle" => Timeout \/ Rebooting
    <2>1. None \notin Actors BY NamesAssumption
    <2>. QED BY <2>1 DEF WInv, CallComes
  <1> DEFINE t == <<"at", c>>
  <1>6. t[1] = "at" /\ t[2] = c OBVIOUS
  <1>7. Lone(a, t) => Lone(a, todo[a][1]) BY <1>2 DEF Lone
  <1>8. Ending(t) => Ended
    <2>1. Ending(t) => c \in {"ATD", "QPCMV"} BY DEF Ending
    <2>. QED BY <1>5, <2>1 DEF Ended
  <1> DEFINE one == <<t>>
  <1>9. Full(a, one) /\ Keeps(a) BY <1>0, <1>2, ThenOne
  <1> HIDE DEF t
  <1>10. Len(one) = 1 /\ one[1] = t OBVIOUS
  <1> HIDE DEF one
  <1>11. \A i \in 1..Len(one) : i = 1 /\ one[i] = t BY <1>10
  <1>12. t # Cfun /\ ~Changing(t) BY <1>6 DEF Cfun, Changing
  <1>13. Neat(a, one)
    <2>1. todo[a][1] # <<"set", Dialing>> BY <1>3
    <2>. QED BY <1>6, <1>7, <1>10, <1>11, <1>12, <2>1 DEF Neat
  <1>14. Rebooting => Rebooting' BY <1>3, <1>9, RebootingKept
  <1>15. Ended => Ended'
    <2>1. InCall' => InCall BY DEF InCall
    <2>. QED BY <1>14, <2>1, EndedKept
  <1>16. Works(a, one)
    BY <1>2, <1>6, <1>8, <1>9, <1>11, <1>12, <1>13, <1>15 DEF Works, OpMoves
  <1>. QED BY <1>2, <1>3, <1>5, <1>16, LockMoves

GiveUpStep(a) == IF a = "web" THEN <<"closeSession", None>> ELSE <<"close", a>>

\* Dial, Answer and Hangup: refused, or with the lock and a command.
LEMMA DialsFollow ==
  ASSUME IInv, WInv, NEW a \in Actors, Dial(a) \/ Answer(a) \/ Hangup(a)
  PROVE  WInv'
  <1>0. Typed BY DEF IInv
  <1>1. UNCHANGED <<modem, urcs, call, uac, races, ofSession>> /\ opMu = None
    BY DEF Dial, Answer, Hangup, sessionVars
  <1> DEFINE t == GiveUpStep(a)
  <1>2. GiveUp(a) = <<t>> BY DEF GiveUp, GiveUpStep
  <1>3a. PICK op \in PlainOps : \E x : t = <<op, x>> BY DEF GiveUpStep, PlainOps
  <1>3. PICK x : t = <<op, x>> BY <1>3a
  <1>4. ~Locking(t) /\ t # Cfun /\ ~Changing(t) /\ ~Ending(t) /\ ~Lone(a, t) /\ ~First(t) /\ t[1] # "set"
        /\ t[1] \notin {"reboot", "unready"}
    BY <1>3, PlainFacts
  <1>5. CASE Dial(a)
    <2>1. Doing(a, "dial", None) BY <1>5 DEF Dial
    <2>2. todo[a] # <<>> /\ todo[a][1] = <<"dial", None>> BY <1>0, <2>1, StepFacts
    <2>3. CASE call.state # "idle"
      <3>1. todo' = [todo EXCEPT ![a] = <<t>>] /\ UNCHANGED opMu BY <1>2, <1>5, <2>3 DEF Dial
      <3>2. SessionsKept(a) BY <1>1, <2>2 DEF SessionsKept
      <3>3. Lone(a, todo[a][1]) BY <2>2 DEF Lone
      <3>9. Away(a) BY <2>2, AwayFacts
      <3> DEFINE one == <<t>>
      <3> HIDE DEF t
      <3>4. Len(one) = 1 /\ one[1] = t /\ one \in Seq({t}) OBVIOUS
      <3>10. todo' = [todo EXCEPT ![a] = one] BY <3>1
      <3> HIDE DEF one
      <3>5. Dropped(a, one) BY <1>0, <3>4, <3>10, StartDropped
      <3>6. Keeps(a) BY <1>0, <2>2, <3>3, <3>5, DroppedKeeps DEF WInv
      <3>7. \A i \in 1..Len(one) : i = 1 /\ one[i] = t BY <3>4
      <3>8. Neat(a, one)
        BY <1>4, <2>2, <3>4, <3>7 DEF Neat
      <3>11. Calm(a, one) BY <1>4, <3>2, <3>5, <3>6, <3>7, <3>8, <3>9 DEF Calm, Away, SessionsKept
      <3>. QED BY <1>1, <3>1, <3>11, CalmKept
    <2>4. CASE call.state = "idle"
      BY <1>1, <1>5, <2>1, <2>4, TakeFollows DEF Dial
    <2>. QED BY <2>3, <2>4
  <1>6. CASE Answer(a)
    <2>1. Doing(a, "answer", None) BY <1>6 DEF Answer
    <2>2. CASE call.state = "idle" \/ ~call.incoming
      <3>1. Then(a, <<<<op, x>>>>) /\ UNCHANGED opMu BY <1>2, <1>3, <1>6, <2>2 DEF Answer
      <3>. QED BY <1>1, <2>1, <3>1, PlainKept
    <2>3. CASE ~(call.state = "idle" \/ ~call.incoming)
      BY <1>1, <1>6, <2>1, <2>3, TakeFollows DEF Answer
    <2>. QED BY <2>2, <2>3
  <1>7. CASE Hangup(a)
    <2>1. Doing(a, "hangup", None) /\ opMu' = a BY <1>7 DEF Hangup
    <2>2. CASE call.state = "idle"
      BY <1>1, <1>7, <2>1, <2>2, TakeFollows DEF Hangup
    <2>3. CASE call.state # "idle"
      BY <1>1, <1>7, <2>1, <2>3, TakeFollows DEF Hangup
    <2>. QED BY <2>2, <2>3
  <1>. QED BY <1>5, <1>6, <1>7

\* The stacks are as they were.
LEMMA StillKept ==
  ASSUME IInv, WInv, UNCHANGED <<call, opMu, uac, ofSession, todo, races>>,
         \/ UNCHANGED <<modem, urcs>>
         \/ modem \in {"calling", "talking"} /\ modem' \in {"calling", "talking"} /\ (NoCarrier' => NoCarrier)
         \/ modem = "none" /\ modem' = "ringing"
         \/ modem' = "none" /\ NoCarrier'
  PROVE  WInv'
  <1> USE DEF WInv
  <1>1. Places' BY DEF Places, Cfun
  <1>2. Locks' BY DEF Locks
  <1>3. (Rebooting' <=> Rebooting) /\ (Timeout' <=> Timeout)
        /\ (Unless({"late", "timeout"})' <=> Unless({"late", "timeout"}))
    BY DEF Rebooting, Had, HadIn, Cfun, Timeout, Unless
  <1>4. Origins' BY <1>3 DEF Origins, Origin
  <1>5. InCall' => InCall BY DEF InCall
  <1>6. Ended => Ended' BY <1>3, <1>5 DEF Ended
  <1>7. Endings' BY <1>6 DEF Endings
  <1>8. \A x : Has(<<"set", x>>)' <=> Has(<<"set", x>>) BY DEF Has, Had
  <1>9. EndComes'
    <2>1. UNCHANGED urcs => (NoCarrier' <=> NoCarrier) BY DEF NoCarrier
    <2>. QED BY <1>3, <1>8, <2>1 DEF EndComes
  <1>10. CallComes' BY <1>3, <1>5 DEF CallComes, Had
  <1>11. (NoCarrier => ~InCall)' BY DEF NoCarrier, InCall
  <1>12. DialsFresh' BY DEF DialsFresh
  <1>13. RebootGoesOn' BY <1>3 DEF RebootGoesOn, Had
  <1>14. Unready' BY <1>3, <1>5 DEF Unready
  <1>. QED BY <1>1, <1>2, <1>4, <1>7, <1>9, <1>10, <1>11, <1>12, <1>13, <1>14

LEMMA LineAdded ==
  ASSUME Typed, NEW line, urcs' = Append(urcs, line)
  PROVE  /\ line # "NO CARRIER" => (NoCarrier' => NoCarrier)
         /\ line = "NO CARRIER" => NoCarrier'
  <1>1. urcs \in Seq(Lines) BY DEF Typed, Shape
  <1>2. /\ Len(urcs) \in Nat /\ Len(urcs') = Len(urcs) + 1 /\ urcs'[Len(urcs) + 1] = line
        /\ \A i \in 1..Len(urcs) : urcs'[i] = urcs[i]
    BY <1>1
  <1>3. \A i \in 1..Len(urcs') : i \in 1..Len(urcs) \/ i = Len(urcs) + 1 BY <1>2
  <1>4. Len(urcs) + 1 \in 1..Len(urcs') BY <1>2
  <1>. QED BY <1>2, <1>3, <1>4 DEF NoCarrier

\* The modem and the other end.
LEMMA RemoteFollows ==
  ASSUME IInv, WInv, RemoteAnswers \/ RemoteRings \/ RemoteEnds \/ UNCHANGED vars
  PROVE  WInv'
  <1>0. Typed BY DEF IInv
  <1>1. UNCHANGED <<call, opMu, uac, ofSession, todo, races>>
    BY DEF RemoteAnswers, RemoteRings, RemoteEnds, vars, workerVars, sessionVars
  <1>2. CASE RemoteAnswers
    <2>2. "ACTIVE" # "NO CARRIER" OBVIOUS
    <2>3. urcs' = Append(urcs, "ACTIVE") BY <1>2 DEF RemoteAnswers
    <2>0. PICK line : urcs' = Append(urcs, line) /\ line # "NO CARRIER" BY <2>2, <2>3, Zenon
    <2>1. NoCarrier' => NoCarrier BY <1>0, <2>0, LineAdded
    <2>. QED BY <1>1, <1>2, <2>1, StillKept DEF RemoteAnswers
  <1>3. CASE RemoteRings BY <1>1, <1>3, StillKept DEF RemoteRings
  <1>4. CASE RemoteEnds
    <2>1. NoCarrier' BY <1>0, <1>4, LineAdded DEF RemoteEnds
    <2>. QED BY <1>1, <1>4, <2>1, StillKept DEF RemoteEnds
  <1>5. CASE UNCHANGED vars BY <1>1, <1>5, StillKept DEF vars, workerVars
  <1>. QED BY <1>2, <1>3, <1>4, <1>5

\* A line of the modem: the loop declares what it says.
LEMMA LineFollows ==
  ASSUME IInv, WInv, HandleURC
  PROVE  WInv'
  <1> DEFINE a == Loop  line == Head(urcs)
  <1>0. Typed /\ a \in Actors /\ a \notin Dials /\ a # "web"
    BY NamesAssumption DEF IInv, Actors, Legs, Loop
  <1>1. /\ UNCHANGED <<modem, call, opMu, uac, ofSession, races>> /\ todo[a] = <<>> /\ urcs # <<>>
        /\ urcs' = Tail(urcs)
    BY DEF HandleURC, sessionVars
  <1>2. urcs \in Seq(Lines) BY <1>0 DEF Typed, Shape
  <1>3. /\ Len(urcs) \in Nat /\ 1 \in 1..Len(urcs) /\ line = urcs[1] /\ line \in Lines
        /\ Len(urcs') = Len(urcs) - 1 /\ \A i \in 1..Len(urcs') : urcs'[i] = urcs[i + 1]
    BY <1>1, <1>2
  <1>4. NoCarrier' => NoCarrier
    <2>1. \A i \in 1..Len(urcs') : i + 1 \in 1..Len(urcs) BY <1>3
    <2>. QED BY <1>3, <2>1 DEF NoCarrier
  <1>5. NoCarrier /\ line # "NO CARRIER" => NoCarrier'
    <2>0. \A i \in 1..Len(urcs) : i # 1 => i - 1 \in 1..Len(urcs') /\ (i - 1) + 1 = i BY <1>3
    <2> SUFFICES ASSUME NEW i \in 1..Len(urcs), urcs[i] = "NO CARRIER", line # "NO CARRIER"
                 PROVE  NoCarrier'
      BY DEF NoCarrier
    <2>3. i # 1 BY <1>3
    <2>1. i - 1 \in 1..Len(urcs') /\ (i - 1) + 1 = i BY <2>0, <2>3
    <2>2. urcs'[i - 1] = "NO CARRIER" BY <1>3, <2>1
    <2>. QED BY <2>1, <2>2 DEF NoCarrier
  <1>6. line = "NO CARRIER" => NoCarrier BY <1>3 DEF NoCarrier
  <1>7. InCall' <=> InCall BY <1>1 DEF InCall
  <1>8. ASSUME NEW steps \in Seq({"set"} \X CallStates), todo' = [todo EXCEPT ![a] = steps],
               Len(steps) \in {0, 1},
               \A i \in 1..Len(steps) : steps[i][2].state = "idle" => line = "NO CARRIER",
               line = "NO CARRIER" => Len(steps) = 1 /\ steps[1] = <<"set", Idle>>
        PROVE  WInv'
    <2>1. Full(a, steps) /\ Keeps(a) /\ \A t : HadIn(todo'[a], t) <=> HadIn(steps, t)
      BY <1>0, <1>1, <1>8, StartFull
    <2>0. /\ \A i \in 1..Len(steps) : i = 1
          /\ Len(steps) > 0 => 1 \in 1..Len(steps)
          /\ Len(steps) = 1 => 1 \in 1..Len(steps)
      <3>1. PICK n : n = Len(steps) /\ n \in {0, 1} BY <1>8
      <3>2. (\A i \in 1..n : i = 1) /\ (n > 0 => 1 \in 1..n) /\ (n = 1 => 1 \in 1..n) BY <3>1
      <3>. QED BY <3>1, <3>2
    <2>2. \A i \in 1..Len(steps) : i = 1 /\ steps[i][1] = "set"
      <3>1. \A i \in 1..Len(steps) : steps[i] \in {"set"} \X CallStates OBVIOUS
      <3>. QED BY <2>0, <3>1
    <2>3. \A i \in 1..Len(steps) : /\ ~Locking(steps[i]) /\ ~Lone(a, steps[i]) /\ steps[i] # Cfun
                                   /\ steps[i][1] \notin {"reboot", "unready"}
      BY <2>2 DEF Locking, Command, UnlockStep, Cfun, Lone
    <2>4. Neat(a, steps)
      <3>. QED BY <1>1, <2>0, <2>2, <2>3 DEF Neat
    <2>5. Rebooting => Rebooting' BY <1>0, <2>1, RebootingKept
    <2>6. Ended => Ended' BY <1>0, <1>1, <1>7, <2>5, EndedKept
    <2>7. Origin(a)' BY DEF Origin
    <2>8. \A i \in 1..Len(steps) : Ending(steps[i]) => Ended'
      <3>1. \A i \in 1..Len(steps) : Ending(steps[i]) => steps[i][2].state = "idle"
        BY <2>2 DEF Ending
      <3>. QED BY <1>6, <1>8, <2>6, <3>1 DEF WInv, Ended
    <2>9. OpMoves(a) BY <1>1 DEF OpMoves
    <2>10. Works(a, steps) BY <1>0, <1>1, <2>1, <2>3, <2>4, <2>6, <2>7, <2>8, <2>9 DEF Works
    <2>11. /\ \A b \in Actors : \A x : Had(b, <<"set", x>>) => Had(b, <<"set", x>>)'
           /\ \A x : Has(<<"set", x>>) => Has(<<"set", x>>)'
      BY <1>0, <1>1, <2>1, SetsKept
    <2>12. line = "NO CARRIER" => Has(<<"set", Idle>>)'
      <3>3. line = "NO CARRIER" => 1 \in 1..Len(steps) /\ steps[1] = <<"set", Idle>> BY <1>8, <2>0
      <3>1. line = "NO CARRIER" => HadIn(steps, <<"set", Idle>>) BY <3>3 DEF HadIn
      <3>2. line = "NO CARRIER" => HadIn(todo'[a], <<"set", Idle>>) BY <2>1, <3>1
      <3>. QED BY <1>0, <3>2 DEF Has, Had, HadIn
    <2>13. Idle \in Idling BY DEF Idling, Idle, CallState, CallStates
    <2>14. EndComes'
      <3>1. Unless({"late", "timeout"}) => Unless({"late", "timeout"})' BY <1>1 DEF Unless
      <3>. QED BY <1>1, <1>5, <2>11, <2>12, <2>13, <3>1 DEF WInv, EndComes
    <2>15. CallComes'
      <3>1. Timeout => Timeout' BY <1>1 DEF Unless, Timeout
      <3>. QED BY <1>1, <1>7, <2>5, <2>11, <3>1 DEF WInv, CallComes
    <2>16. (NoCarrier => ~InCall)' BY <1>4, <1>7 DEF WInv
    <2>17. Unready' BY <1>1, <1>7, <2>5, DeviceKept DEF WInv
    <2>. QED BY <1>0, <2>10, <2>14, <2>15, <2>16, <2>17, WorksKept
  <1>9. ASSUME NEW x \in CallStates, todo' = [todo EXCEPT ![a] = <<<<"set", x>>>>],
               x.state = "idle" => line = "NO CARRIER", line = "NO CARRIER" => x = Idle
        PROVE  WInv'
    <2> DEFINE one == <<<<"set", x>>>>
    <2>1. one \in Seq({"set"} \X CallStates) /\ Len(one) = 1 /\ one[1] = <<"set", x>> OBVIOUS
    <2>2. todo' = [todo EXCEPT ![a] = one] BY <1>9
    <2> HIDE DEF one
    <2>3. \A i \in 1..Len(one) : one[i][2] = x BY <2>1
    <2>. QED BY <1>8, <1>9, <2>1, <2>2, <2>3
  <1>10. ASSUME todo' = [todo EXCEPT ![a] = <<>>], line # "NO CARRIER" PROVE WInv'
    <2> DEFINE none == <<>>
    <2>1. none \in Seq({"set"} \X CallStates) /\ Len(none) = 0 /\ \A i \in 1..Len(none) : FALSE OBVIOUS
    <2>2. todo' = [todo EXCEPT ![a] = none] BY <1>10
    <2> HIDE DEF none
    <2>. QED BY <1>8, <1>10, <2>1, <2>2
  <1>11. /\ \A s \in {"idle", "dialing", "in_call"}, i \in BOOLEAN, r \in BOOLEAN :
               CallState(s, i, r) \in CallStates /\ CallState(s, i, r).state = s
         /\ Idle = CallState("idle", FALSE, FALSE)
    BY DEF CallState, CallStates, Idle
  <1>12. line \in {"RING", "CLCC", "ACTIVE", "NO CARRIER"} BY <1>3 DEF Lines
  <1>13. CASE line = "NO CARRIER"
    <2>1. todo' = [todo EXCEPT ![a] = <<<<"set", Idle>>>>] BY <1>13 DEF HandleURC
    <2>. QED BY <1>9, <1>11, <1>13, <2>1
  <1>14. CASE line = "RING" /\ call.state # "idle"
    <2>1. todo' = [todo EXCEPT ![a] = <<>>] BY <1>14 DEF HandleURC
    <2>. QED BY <1>10, <1>14, <2>1
  <1>15. CASE line = "RING" /\ call.state = "idle"
    <2>1. todo' = [todo EXCEPT ![a] = <<<<"set", CallState("dialing", FALSE, FALSE)>>>>]
      BY <1>15 DEF HandleURC
    <2>. QED BY <1>9, <1>11, <1>15, <2>1
  <1>16. CASE line = "CLCC"
    <2>1. todo' = [todo EXCEPT ![a] = <<<<"set", CallState("dialing", TRUE, TRUE)>>>>]
      BY <1>16 DEF HandleURC
    <2>. QED BY <1>9, <1>11, <1>16, <2>1
  <1>17. CASE line = "ACTIVE"
    <2>1. todo' = [todo EXCEPT ![a] = <<<<"set", CallState("in_call", FALSE, FALSE)>>>>]
      BY <1>17 DEF HandleURC
    <2>. QED BY <1>9, <1>11, <1>17, <2>1
  <1>. QED BY <1>12, <1>13, <1>14, <1>15, <1>16, <1>17

-----------------------------------------------------------------------------
(* The replies of the modem.                                               *)

\* A call attempt goes on with changes of the state, releases callOpMu and, if
\* it has failed, is given up.
Tidy(a, steps) ==
    /\ \A i \in 1..Len(steps) :
          \/ steps[i] = UnlockStep
          \/ steps[i] = GiveUpStep(a) /\ i = Len(steps) /\ Len(todo'[a]) = Len(steps)
          \/ /\ steps[i] \in {"set"} \X CallStates
             /\ \/ i = 1
                \/ /\ steps[i][2].state # "idle"
                   /\ \E j \in 1..Len(steps) : j > i /\ steps[j] = UnlockStep
    /\ \A i, j \in 1..Len(steps) : steps[i] = UnlockStep /\ steps[j] = UnlockStep => i = j

LEMMA GiveUpPlain ==
  ASSUME NEW a
  PROVE  /\ ~Locking(GiveUpStep(a)) /\ GiveUpStep(a) # Cfun /\ ~Changing(GiveUpStep(a))
         /\ ~Ending(GiveUpStep(a)) /\ ~Lone(a, GiveUpStep(a)) /\ ~First(GiveUpStep(a))
         /\ GiveUpStep(a)[1] \notin {"reboot", "unready", "set"}
  <1>1a. PICK op \in PlainOps : \E x : GiveUpStep(a) = <<op, x>> BY DEF GiveUpStep, PlainOps
  <1>1. PICK x : GiveUpStep(a) = <<op, x>> BY <1>1a
  <1>. QED BY <1>1, PlainFacts

LEMMA TidyWorks ==
  ASSUME IInv, WInv, NEW a \in Actors, NEW c, Doing(a, "at", c), c # "CFUN", NEW steps, Tidy(a, steps),
         Full(a, steps) \/ (Dropped(a, steps) /\ Keeps(a)), UNCHANGED <<opMu, ofSession>>,
         \A i \in 1..Len(steps) : Ending(steps[i]) => Ended',
         \/ Ended => Ended'
         \/ \A b \in Actors : \A i \in 1..Len(todo[b]) :
               Ending(todo[b][i]) /\ (b = a => i > 1) => Ended'
  PROVE  Works(a, steps) /\ opMu = a
  <1>0. Typed BY DEF IInv
  <1>1. todo[a] # <<>> /\ todo[a][1] = <<"at", c>> /\ 1 \in 1..Len(todo[a]) BY <1>0, StepFacts
  <1>2. Locking(todo[a][1]) /\ todo[a][1] # <<"set", Dialing>> BY <1>1 DEF Locking, Command
  <1>3. opMu = a BY <1>1, <1>2 DEF WInv, Locks
  <1>4. Origin(a)' BY <1>3 DEF Origin
  <1>5. Locking(UnlockStep) /\ ~First(UnlockStep) /\ UnlockStep # Cfun /\ ~Lone(a, UnlockStep)
        /\ UnlockStep[1] = "unlock"
    BY DEF Locking, UnlockStep, First, Command, Cfun, Lone
  <1>6. \A t \in {"set"} \X CallStates : ~Locking(t) /\ t # Cfun /\ ~Lone(a, t) /\ ~First(t) /\ t[1] = "set"
    BY DEF Locking, UnlockStep, First, Command, Cfun, Lone
  <1>7. GiveUpStep(a)[1] = "closeSession" \/ GiveUpStep(a)[1] = "close" BY DEF GiveUpStep
  <1>8. Neat(a, steps)
    <2>0. Len(steps) \in Nat BY DEF Full, Dropped, Went
    <2>1. ASSUME NEW i \in 1..Len(steps)
          PROVE  /\ ~First(steps[i]) /\ steps[i] # Cfun /\ ~Lone(a, steps[i])
                 /\ steps[i][1] = "set" =>
                       \/ i = 1
                       \/ /\ steps[i][2].state # "idle"
                          /\ \E j \in 1..Len(steps) : j > i /\ steps[j] = UnlockStep
                 /\ steps[i][1] = "closeSession" => i = Len(steps) /\ Len(todo'[a]) = Len(steps)
      <3>1. CASE steps[i] = UnlockStep BY <1>5, <3>1
      <3>2. CASE steps[i] = GiveUpStep(a) /\ i = Len(steps) /\ Len(todo'[a]) = Len(steps)
        BY <3>2, GiveUpPlain
      <3>3. CASE /\ steps[i] \in {"set"} \X CallStates
                 /\ \/ i = 1
                    \/ /\ steps[i][2].state # "idle"
                       /\ \E j \in 1..Len(steps) : j > i /\ steps[j] = UnlockStep
        BY <1>6, <3>3
      <3>. QED BY <3>1, <3>2, <3>3 DEF Tidy
    <2>2. Len(steps) > 0 => 1 \in 1..Len(steps) BY <2>0
    <2>. QED BY <1>2, <2>0, <2>1, <2>2 DEF Neat
  <1>9. \A i \in 1..Len(steps) : /\ Locking(steps[i]) => steps[i] = UnlockStep
                                 /\ steps[i][1] \notin {"reboot", "unready"}
    BY <1>5, <1>6, GiveUpPlain DEF Tidy
  <1>10. \A i \in 1..Len(steps) : Locking(steps[i]) =>
           \A j \in 1..Len(steps) : Locking(steps[j]) => i = j
    BY <1>9 DEF Tidy
  <1>. QED BY <1>1, <1>2, <1>3, <1>4, <1>8, <1>9, <1>10 DEF Works, OpMoves

LEMMA SetStates ==
  /\ \A s \in {"idle", "dialing", "in_call"}, i \in BOOLEAN, r \in BOOLEAN :
        CallState(s, i, r) \in CallStates /\ CallState(s, i, r).state = s
  /\ Idle \in CallStates /\ Idle.state = "idle" /\ Idle \in Idling
  /\ Dialing \in CallStates /\ Dialing.state = "dialing"
  BY DEF CallState, CallStates, Idle, Dialing, Idling

\* The steps after a reply, one by one.
LEMMA Sequences ==
  ASSUME NEW d, NEW n, NEW u
  PROVE  /\ <<d, n>> \o <<u>> \in Seq({d, n, u}) /\ Len(<<d, n>> \o <<u>>) = 3
         /\ (<<d, n>> \o <<u>>)[1] = d /\ (<<d, n>> \o <<u>>)[2] = n /\ (<<d, n>> \o <<u>>)[3] = u
         /\ <<d>> \o <<u>> \in Seq({d, n, u}) /\ Len(<<d>> \o <<u>>) = 2
         /\ (<<d>> \o <<u>>)[1] = d /\ (<<d>> \o <<u>>)[2] = u
         /\ (<<d>> \o <<n>>) \o <<u>> \in Seq({d, n, u}) /\ Len((<<d>> \o <<n>>) \o <<u>>) = 3
         /\ ((<<d>> \o <<n>>) \o <<u>>)[1] = d /\ ((<<d>> \o <<n>>) \o <<u>>)[2] = n
         /\ ((<<d>> \o <<n>>) \o <<u>>)[3] = u
  OBVIOUS

LEMMA NilConcat ==
  ASSUME NEW S, NEW s \in Seq(S)
  PROVE  /\ s \o <<>> \in Seq(S) /\ Len(s \o <<>>) = Len(s)
         /\ \A i \in 1..Len(s) : (s \o <<>>)[i] = s[i]
  OBVIOUS

\* What follows an accepted command.
LEMMA AcceptedSteps ==
  ASSUME NEW a, NEW c \in Commands \ {"CFUN"}
  PROVE  /\ \E S : Accepted(c) \in Seq(S)
         /\ Tidy(a, Accepted(c))
         /\ c \in {"ATD", "ATA"} =>
               /\ \A i \in 1..Len(Accepted(c)) : ~Ending(Accepted(c)[i])
               /\ \E x \in CallStates \ Idling : HadIn(Accepted(c), <<"set", x>>)
         /\ c \in {"ATH", "QPCMV"} => HadIn(Accepted(c), <<"set", Idle>>)
  <1> DEFINE x == CallState("in_call", FALSE, FALSE)  y == CallState("in_call", TRUE, FALSE)
             d == <<"set", Dialing>>  n == <<"set", x>>  m == <<"set", y>>  e == <<"set", Idle>>
             u == UnlockStep
  <1>1. /\ x \in CallStates /\ y \in CallStates /\ x.state = "in_call" /\ y.state = "in_call"
        /\ Dialing \in CallStates /\ Dialing.state = "dialing" /\ Idle \in CallStates
    BY SetStates
  <1>2. d \in {"set"} \X CallStates /\ n \in {"set"} \X CallStates /\ m \in {"set"} \X CallStates
        /\ e \in {"set"} \X CallStates
    BY <1>1
  <1>3. ~Ending(d) /\ ~Ending(n) /\ ~Ending(m) /\ ~Ending(u)
    BY <1>1 DEF Ending, UnlockStep
  <1>4. x \in CallStates \ Idling /\ y \in CallStates \ Idling BY <1>1 DEF Idling
  <1>5. /\ Accepted("ATD") = <<d, n>> \o <<u>>
        /\ Accepted("ATA") = <<m>> \o <<u>>
        /\ Accepted("ATH") = <<e>> \o <<u>> /\ Accepted("QPCMV") = <<e>> \o <<u>>
    BY DEF Accepted, Unlocked, UnlockStep, Dialing
  <1>6. u # d /\ u # n /\ u # m /\ u # e BY DEF UnlockStep
  <1>7. n[2] = x OBVIOUS
  <1> HIDE DEF x, y, d, n, m, e, u
  <1>8. CASE c = "ATD"
    <2> DEFINE s == <<d, n>> \o <<u>>
    <2>1. s \in Seq({d, n, u}) /\ Len(s) = 3 /\ s[1] = d /\ s[2] = n /\ s[3] = u BY Sequences
    <2> HIDE DEF s
    <2>2. \A i \in 1..Len(s) : (i = 1 /\ s[i] = d) \/ (i = 2 /\ s[i] = n) \/ (i = 3 /\ s[i] = u)
      BY <2>1, Ranges
    <2>3. Tidy(a, s)
      <3>1. \A i \in 1..Len(s) :
              \/ s[i] = UnlockStep
              \/ /\ s[i] \in {"set"} \X CallStates
                 /\ \/ i = 1
                    \/ /\ s[i][2].state # "idle"
                       /\ \E j \in 1..Len(s) : j > i /\ s[j] = UnlockStep
        <4>1. 3 \in 1..Len(s) /\ s[3] = UnlockStep BY <2>1, Ranges DEF u
        <4>2. s[2][2].state # "idle" BY <1>1, <1>7, <2>1
        <4>. QED BY <1>2, <2>2, <4>1, <4>2 DEF u
      <3>2. \A i \in 1..Len(s) : s[i] = UnlockStep => i = 3 BY <1>6, <2>2 DEF u
      <3>. QED BY <3>1, <3>2 DEF Tidy
    <2>4. \A i \in 1..Len(s) : ~Ending(s[i]) BY <1>3, <2>2
    <2>5. HadIn(s, n) BY <2>1, Ranges DEF HadIn
    <2>6. \E z \in CallStates \ Idling : HadIn(s, <<"set", z>>) BY <1>4, <2>5 DEF n
    <2>7. Accepted(c) = s BY <1>5, <1>8 DEF s
    <2>. QED BY <1>8, <2>1, <2>3, <2>4, <2>6, <2>7
  <1>9. CASE c = "ATA"
    <2> DEFINE s == <<m>> \o <<u>>
    <2>1. s \in Seq({m, n, u}) /\ Len(s) = 2 /\ s[1] = m /\ s[2] = u BY Sequences
    <2> HIDE DEF s
    <2>2. \A i \in 1..Len(s) : (i = 1 /\ s[i] = m) \/ (i = 2 /\ s[i] = u)
      BY <2>1, Ranges
    <2>3. Tidy(a, s)
      <3>1. \A i \in 1..Len(s) : s[i] = UnlockStep \/ (s[i] \in {"set"} \X CallStates /\ i = 1)
        BY <1>2, <2>2 DEF u
      <3>2. \A i \in 1..Len(s) : s[i] = UnlockStep => i = 2 BY <1>6, <2>2 DEF u
      <3>. QED BY <3>1, <3>2 DEF Tidy
    <2>4. \A i \in 1..Len(s) : ~Ending(s[i]) BY <1>3, <2>2
    <2>5. HadIn(s, m) BY <2>1, Ranges DEF HadIn
    <2>6. \E z \in CallStates \ Idling : HadIn(s, <<"set", z>>) BY <1>4, <2>5 DEF m
    <2>7. Accepted(c) = s BY <1>5, <1>9 DEF s
    <2>. QED BY <1>9, <2>1, <2>3, <2>4, <2>6, <2>7
  <1>10. CASE c \in {"ATH", "QPCMV"}
    <2> DEFINE s == <<e>> \o <<u>>
    <2>1. s \in Seq({e, n, u}) /\ Len(s) = 2 /\ s[1] = e /\ s[2] = u BY Sequences
    <2> HIDE DEF s
    <2>2. \A i \in 1..Len(s) : (i = 1 /\ s[i] = e) \/ (i = 2 /\ s[i] = u)
      BY <2>1, Ranges
    <2>3. Tidy(a, s)
      <3>1. \A i \in 1..Len(s) : s[i] = UnlockStep \/ (s[i] \in {"set"} \X CallStates /\ i = 1)
        BY <1>2, <2>2 DEF u
      <3>2. \A i \in 1..Len(s) : s[i] = UnlockStep => i = 2 BY <1>6, <2>2 DEF u
      <3>. QED BY <3>1, <3>2 DEF Tidy
    <2>5. HadIn(s, e) BY <2>1, Ranges DEF HadIn
    <2>7. Accepted(c) = s BY <1>5, <1>10 DEF s
    <2>. QED BY <1>10, <2>1, <2>3, <2>5, <2>7 DEF e
  <1>. QED BY <1>8, <1>9, <1>10 DEF Commands

\* An attempt that is refused: Dial sets the call to idle again.
LEMMA RefusedSteps ==
  ASSUME NEW a, NEW c \in {"ATD", "ATA", "ATH"}
  PROVE  /\ \E S : Refused(a, c) \in Seq(S)
         /\ \A i \in 1..Len(Refused(a, c)) :
               \/ Refused(a, c)[i] = UnlockStep
               \/ Refused(a, c)[i] = GiveUpStep(a) /\ i = Len(Refused(a, c)) /\ c # "ATH"
               \/ Refused(a, c)[i] = <<"set", Idle>> /\ i = 1 /\ c = "ATD"
         /\ \A i, j \in 1..Len(Refused(a, c)) :
               Refused(a, c)[i] = UnlockStep /\ Refused(a, c)[j] = UnlockStep => i = j
         /\ c = "ATD" => HadIn(Refused(a, c), <<"set", Idle>>)
         /\ c # "ATH" => HadIn(Refused(a, c), GiveUpStep(a))
  <1> DEFINE e == <<"set", Idle>>  u == UnlockStep  g == GiveUpStep(a)
  <1>1. /\ Refused(a, "ATD") = (<<e>> \o <<u>>) \o <<g>> /\ Refused(a, "ATA") = <<u>> \o <<g>>
        /\ Refused(a, "ATH") = <<u>>
    BY DEF Refused, Unlocked, UnlockStep, GiveUp, GiveUpStep
  <1>2. u # e /\ u # g /\ e # g
    <2>1. g[1] \in {"close", "closeSession"} BY DEF GiveUpStep
    <2>2. u[1] = "unlock" /\ e[1] = "set" BY DEF UnlockStep
    <2>. QED BY <2>1, <2>2
  <1> HIDE DEF e, u, g
  <1>3. CASE c = "ATD"
    <2> DEFINE s == (<<e>> \o <<u>>) \o <<g>>
    <2>1. s \in Seq({e, u, g}) /\ Len(s) = 3 /\ s[1] = e /\ s[2] = u /\ s[3] = g BY Sequences
    <2> HIDE DEF s
    <2>2. \A i \in 1..Len(s) : (i = 1 /\ s[i] = e) \/ (i = 2 /\ s[i] = u) \/ (i = 3 /\ s[i] = g)
      BY <2>1, Ranges
    <2>3. \A i \in 1..Len(s) : s[i] = u => i = 2 BY <1>2, <2>2
    <2>4. HadIn(s, e) /\ HadIn(s, g) BY <2>1, Ranges DEF HadIn
    <2>5. s = Refused(a, c) BY <1>1, <1>3 DEF s
    <2>. QED BY <1>3, <2>1, <2>2, <2>3, <2>4, <2>5 DEF e, u, g
  <1>4. CASE c = "ATA"
    <2> DEFINE s == <<u>> \o <<g>>
    <2>1. s \in Seq({u, e, g}) /\ Len(s) = 2 /\ s[1] = u /\ s[2] = g BY Sequences
    <2> HIDE DEF s
    <2>2. \A i \in 1..Len(s) : (i = 1 /\ s[i] = u) \/ (i = 2 /\ s[i] = g)
      BY <2>1, Ranges
    <2>3. \A i \in 1..Len(s) : s[i] = u => i = 1 BY <1>2, <2>2
    <2>4. HadIn(s, g) BY <2>1, Ranges DEF HadIn
    <2>5. s = Refused(a, c) BY <1>1, <1>4 DEF s
    <2>. QED BY <1>4, <2>1, <2>2, <2>3, <2>4, <2>5 DEF e, u, g
  <1>5. CASE c = "ATH"
    <2> DEFINE s == <<u>>
    <2>1. s \in Seq({u}) /\ Len(s) = 1 /\ s[1] = u OBVIOUS
    <2> HIDE DEF s
    <2>2. \A i \in 1..Len(s) : i = 1 /\ s[i] = u BY <2>1, Ranges
    <2>5. s = Refused(a, c) BY <1>1, <1>5 DEF s
    <2>. QED BY <1>5, <2>1, <2>2, <2>5 DEF e, u, g
  <1>. QED BY <1>3, <1>4, <1>5

\* While the serial loop waits for the reply, nobody but a reboot is about to
\* declare the call ended.
LEMMA NobodyElse ==
  ASSUME IInv, WInv, NEW a \in Actors, NEW c, Doing(a, "at", c), c # "CFUN", todo[Loop] = <<>>,
         NEW b \in Actors, NEW i \in 1..Len(todo[b]), Ending(todo[b][i]), b = a => i > 1
  PROVE  Rebooting
  <1>0. Typed BY DEF IInv
  <1>1. todo[a] # <<>> /\ todo[a][1] = <<"at", c>> /\ 1 \in 1..Len(todo[a]) BY <1>0, StepFacts
  <1>2. Locking(todo[a][1]) BY <1>1 DEF Locking, Command
  <1>3. opMu = a BY <1>1, <1>2 DEF WInv, Locks
  <1>4. CASE b = a
    <2>1. ~First(todo[a][i]) BY <1>4 DEF WInv, Places
    <2>2. todo[a][i][1] # "set" BY <1>0, <1>1, <1>2, <1>4, CommandAlone DEF WInv
    <2>3. ~Ending(todo[a][i]) BY <2>1, <2>2 DEF Ending, First, Command
    <2>. QED BY <1>4, <2>3
  <1>5. CASE b # a
    <2>1. Changing(todo[b][i]) \/ Locking(todo[b][i]) BY DEF Ending, Changing, Locking, Command
    <2>2. ~Locking(todo[b][i]) BY <1>3, <1>5 DEF WInv, Locks
    <2>3. Origin(b) BY <2>1, <2>2 DEF WInv, Origins
    <2>4. b # Loop
      <3>1. todo[Loop] = <<>> => Len(todo[Loop]) = 0 OBVIOUS
      <3>. QED BY <3>1
    <2>. QED BY <1>3, <1>5, <2>3, <2>4 DEF Origin
  <1>. QED BY <1>4, <1>5

LEMMA HadSteps ==
  ASSUME NEW a \in Actors, NEW steps, Went(a, steps), NEW t, HadIn(steps, t)
  PROVE  HadIn(todo'[a], t)
  BY DEF Went, HadIn

\* The modem after its reset.
LEMMA RebootFinished ==
  ASSUME IInv, WInv, NEW a \in Actors, Reply(a, "CFUN")
  PROVE  WInv'
  <1>0. Typed BY DEF IInv
  <1>1. /\ Doing(a, "at", "CFUN") /\ UNCHANGED <<urcs, call, opMu, ofSession>> /\ urcs = <<>>
        /\ races \subseteq races'
    BY DEF Reply, sessionVars, Race
  <1>2. todo[a] # <<>> /\ todo[a][1] = <<"at", "CFUN">> BY <1>0, <1>1, StepFacts
  <1>3. Then(a, <<>>)
    <2>1. Accepted("CFUN") = <<>> /\ Refused(a, "CFUN") = <<>> /\ ~Abandons("CFUN", Tail(todo[a]))
      BY DEF Accepted, Refused, Abandons
    <2>. QED BY <2>1 DEF Reply, Then
  <1>4. modem' = "none" \/ "timeout" \in races'
    BY DEF Reply, Race, Effect
  <1>5. call.state # "idle" => "late" \in races' \/ "timeout" \in races'
    BY DEF Reply, Race
  <1>6. ~NoCarrier' BY <1>1 DEF NoCarrier
  <1>7. Ended' BY <1>4 DEF Ended, InCall, Timeout, Unless
  <1>8. EndComes' BY <1>1, <1>5 DEF EndComes, Unless
  <1>9. CallComes' BY <1>4 DEF CallComes, InCall, Timeout, Unless
  <1> DEFINE none == <<>>
  <1>10. Full(a, none) BY <1>0, <1>2, <1>3, ThenNone
  <1>11. Len(none) = 0 /\ \A i \in 1..Len(none) : FALSE OBVIOUS
  <1> HIDE DEF none
  <1>12. Neat(a, none) BY <1>11 DEF Neat
  <1>13. Works(a, none) BY <1>1, <1>2, <1>7, <1>10, <1>11, <1>12 DEF Works, OpMoves
  <1>14. Unready'
    <2>1. (uac' = "gone" /\ modem' = "none") \/ "timeout" \in races'
      BY DEF Reply, Race, Effect
    <2>2. uac' = "gone" => modem' = "none" \/ (uac = "gone" /\ modem' = modem)
      BY DEF Reply, Effect
    <2>. QED BY <2>1, <2>2 DEF WInv, Unready, InCall, Timeout, Unless
  <1>. QED BY <1>6, <1>8, <1>9, <1>13, <1>14, WorksKept

\* The command was accepted, or the audio turned off.
LEMMA AcceptedFollows ==
  ASSUME IInv, WInv, NEW a \in Actors, NEW c \in Commands \ {"CFUN"}, Doing(a, "at", c),
         todo[Loop] = <<>>, urcs = <<>>, UNCHANGED <<urcs, call, opMu, uac, ofSession>>,
         races \subseteq races', Then(a, Accepted(c)),
         c \in {"ATD", "ATA"} => modem' # "none" /\ uac # "gone",
         c = "ATH" => modem' = "none",
         c = "QPCMV" => modem' = modem
  PROVE  WInv'
  <1>0. Typed BY DEF IInv
  <1>1. todo[a] # <<>> /\ todo[a][1] = <<"at", c>> /\ 1 \in 1..Len(todo[a]) BY <1>0, StepFacts
  <1> DEFINE s == Accepted(c)
  <1>2. /\ \E S : s \in Seq(S)
        /\ Tidy(a, s)
        /\ c \in {"ATD", "ATA"} =>
              /\ \A i \in 1..Len(s) : ~Ending(s[i])
              /\ \E x \in CallStates \ Idling : HadIn(s, <<"set", x>>)
        /\ c \in {"ATH", "QPCMV"} => HadIn(s, <<"set", Idle>>)
    BY AcceptedSteps
  <1>3. Then(a, s) OBVIOUS
  <1> HIDE DEF s
  <1>4. Full(a, s) BY <1>0, <1>1, <1>2, <1>3, ThenFull
  <1>5. Keeps(a) /\ Went(a, s) BY <1>0, <1>4, FullKeeps DEF Full
  <1>6. Rebooting => Rebooting' BY <1>1, <1>5, RebootingKept DEF Cfun
  <1>7. Timeout => Timeout' BY LateKept
  <1>8. ~NoCarrier' BY DEF NoCarrier
  <1>9. CASE c \in {"ATD", "ATA"}
    <2>1. \A b \in Actors : \A i \in 1..Len(todo[b]) :
             Ending(todo[b][i]) /\ (b = a => i > 1) => Ended'
      BY <1>6, <1>9, NobodyElse DEF Ended
    <2>2. Works(a, s) /\ opMu = a BY <1>2, <1>4, <1>9, <2>1, TidyWorks
    <2>3. EndComes' BY <1>9 DEF EndComes
    <2>4. CallComes'
      <3>1. PICK x \in CallStates \ Idling : HadIn(s, <<"set", x>>) BY <1>2, <1>9
      <3>2. HadIn(todo'[a], <<"set", x>>) BY <1>5, <3>1, HadSteps
      <3>3. opMu' = a /\ Had(a, <<"set", x>>)' BY <2>2, <3>2 DEF Had, HadIn
      <3>. QED BY <3>3 DEF CallComes
    <2>5. Unready' BY <1>6, <1>7, <1>9 DEF WInv, Unready
    <2>. QED BY <1>8, <2>2, <2>3, <2>4, <2>5, WorksKept
  <1>10. CASE c \in {"ATH", "QPCMV"}
    <2>1. c = "QPCMV" => Ended
      <3>1. c = "QPCMV" => Ending(todo[a][1]) BY <1>1 DEF Ending
      <3>. QED BY <1>1, <3>1 DEF WInv, Endings
    <2>2. InCall' => c = "QPCMV" /\ InCall BY <1>10 DEF InCall
    <2>3. Ended' BY <1>6, <1>7, <2>1, <2>2 DEF Ended
    <2>4. Works(a, s) /\ opMu = a BY <1>2, <1>4, <2>3, TidyWorks
    <2>5. EndComes'
      <3>1. HadIn(todo'[a], <<"set", Idle>>) BY <1>2, <1>5, <1>10, HadSteps
      <3>2. Has(<<"set", Idle>>)' BY <3>1 DEF Has, Had, HadIn
      <3>. QED BY <3>2, SetStates DEF EndComes
    <2>6. CallComes' BY <2>3 DEF CallComes, Ended
    <2>7. Unready' BY <1>6, <2>2, DeviceKept DEF WInv
    <2>. QED BY <1>8, <2>4, <2>5, <2>6, <2>7, WorksKept
  <1>. QED BY <1>9, <1>10 DEF Commands

\* What a refused command leaves to do.
GoRefused(a, c) ==
    todo' = [todo EXCEPT ![a] = Refused(a, c) \o
                (IF Abandons(c, Tail(todo[a])) THEN <<>> ELSE Tail(todo[a]))]

Refuses(a, c, s) ==
    /\ Len(s) = Len(Refused(a, c))
    /\ \A i \in 1..Len(Refused(a, c)) : s[i] = Refused(a, c)[i]
    /\ Full(a, s) \/ (Dropped(a, s) /\ Keeps(a))
    /\ Keeps(a) /\ Went(a, s)
    /\ c # "ATH" => Len(todo'[a]) = Len(s)

LEMMA RefusedGoes ==
  ASSUME IInv, WInv, NEW a \in Actors, NEW c \in {"ATD", "ATA", "ATH"}, Doing(a, "at", c),
         GoRefused(a, c)
  PROVE  \E s : Refuses(a, c, s)
  <1>0. Typed BY DEF IInv
  <1>1. todo[a] # <<>> /\ todo[a][1] = <<"at", c>> /\ 1 \in 1..Len(todo[a]) BY <1>0, StepFacts
  <1> DEFINE r == Refused(a, c)
  <1>2. \E S : r \in Seq(S) BY RefusedSteps
  <1>3. \/ Then(a, r) /\ c = "ATH"
        \/ /\ todo' = [todo EXCEPT ![a] = r \o <<>>]
           /\ c \in {"ATD", "ATA"} \/
              (c = "ATH" /\ Tail(todo[a]) # <<>> /\ Head(Tail(todo[a])) = <<"closeSession", None>>)
    BY DEF Abandons, Then, GoRefused
  <1> HIDE DEF r
  <1>4. PICK S : r \in Seq(S) BY <1>2
  <1>5. PICK s : /\ \E T : s \in Seq(T)
                 /\ Len(s) = Len(r) /\ \A i \in 1..Len(r) : s[i] = r[i]
                 /\ \/ Then(a, s) /\ c = "ATH"
                    \/ /\ todo' = [todo EXCEPT ![a] = s]
                       /\ c \in {"ATD", "ATA"} \/
                          (c = "ATH" /\ Tail(todo[a]) # <<>> /\ Head(Tail(todo[a])) = <<"closeSession", None>>)
    <2>1. CASE Then(a, r) /\ c = "ATH" BY <1>4, <2>1
    <2>2. CASE ~(Then(a, r) /\ c = "ATH") BY <1>3, <1>4, <2>2, NilConcat
    <2>. QED BY <2>1, <2>2
  <1>6. Full(a, s) \/ (Dropped(a, s) /\ Keeps(a))
    <2>1. CASE Then(a, s) BY <1>0, <1>1, <1>5, <2>1, ThenFull
    <2>2. CASE todo' = [todo EXCEPT ![a] = s] /\ c \in {"ATD", "ATA"}
      <3>1. Lone(a, todo[a][1]) BY <1>1, <2>2 DEF Lone
      <3>2. Dropped(a, s) BY <1>0, <1>5, <2>2, StartDropped
      <3>. QED BY <1>0, <1>1, <3>1, <3>2, DroppedKeeps DEF WInv
    <2>3. CASE /\ todo' = [todo EXCEPT ![a] = s]
               /\ Tail(todo[a]) # <<>> /\ Head(Tail(todo[a])) = <<"closeSession", None>>
      <3>1. todo[a] \in Seq(StepsOf(a)) BY <1>0 DEF Typed, Shape
      <3>2. Len(todo[a]) \in Nat /\ 2 \in 1..Len(todo[a]) /\ todo[a][2] = <<"closeSession", None>>
        <4> DEFINE t == todo[a]  U == StepsOf(a)
        <4>1. t \in Seq(U) /\ t # <<>> /\ Tail(t) # <<>> /\ Head(Tail(t)) = <<"closeSession", None>>
          BY <1>1, <2>3, <3>1
        <4> HIDE DEF t, U
        <4>2. Len(t) \in Nat /\ Len(Tail(t)) = Len(t) - 1 /\ Tail(t) \in Seq(U)
              /\ \A k \in 1..Len(Tail(t)) : Tail(t)[k] = t[k + 1]
          BY <4>1
        <4>3. 1 \in 1..Len(Tail(t)) /\ Head(Tail(t)) = Tail(t)[1] BY <4>1, <4>2
        <4>4. Len(t) \in Nat /\ 2 \in 1..Len(t) /\ t[2] = <<"closeSession", None>>
          BY <4>1, <4>2, <4>3
        <4>. QED BY <4>4 DEF t
      <3>3. Len(todo[a]) = 2
        <4>1. todo[a][2][1] = "closeSession" BY <3>2
        <4>2. \A i \in 1..Len(todo[a]) : todo[a][i][1] = "closeSession" => i = 1 \/ i = Len(todo[a])
          BY DEF WInv, Places
        <4>3. 2 = 1 \/ 2 = Len(todo[a]) BY <3>2, <4>1, <4>2, Zenon
        <4>. QED BY <4>3
      <3>4. Dropped(a, s) BY <1>0, <1>5, <2>3, StartDropped
      <3>. QED BY <1>0, <1>1, <3>2, <3>3, <3>4, DroppedKeeps DEF WInv
    <2>. QED BY <1>5, <2>1, <2>2, <2>3
  <1>7. Keeps(a) /\ Went(a, s)
    <2>1. CASE Full(a, s) BY <1>0, <2>1, FullKeeps DEF Full
    <2>2. CASE Dropped(a, s) /\ Keeps(a) BY <2>2 DEF Dropped
    <2>. QED BY <1>6, <2>1, <2>2
  <1>8. c # "ATH" => Len(todo'[a]) = Len(s)
    BY <1>0, <1>5, StartDropped DEF Dropped
  <1>. QED BY <1>5, <1>6, <1>7, <1>8 DEF Refuses, r

\* It was refused, or its reply did not come.
LEMMA RefusedFollows ==
  ASSUME IInv, WInv, NEW a \in Actors, NEW c \in {"ATD", "ATA", "ATH"}, Doing(a, "at", c),
         todo[Loop] = <<>>, urcs = <<>>, UNCHANGED <<urcs, call, opMu, uac, ofSession>>,
         races \subseteq races',
         GoRefused(a, c),
         modem' = modem \/ ("timeout" \in races' /\ uac # "gone"),
         c = "ATH" => "timeout" \in races'
  PROVE  WInv'
  <1>0. Typed BY DEF IInv
  <1>1. todo[a] # <<>> /\ todo[a][1] = <<"at", c>> /\ 1 \in 1..Len(todo[a]) BY <1>0, StepFacts
  <1> DEFINE r == Refused(a, c)
  <1>2. /\ \E S : r \in Seq(S)
        /\ \A i \in 1..Len(r) :
              \/ r[i] = UnlockStep
              \/ r[i] = GiveUpStep(a) /\ i = Len(r) /\ c # "ATH"
              \/ r[i] = <<"set", Idle>> /\ i = 1 /\ c = "ATD"
        /\ \A i, j \in 1..Len(r) : r[i] = UnlockStep /\ r[j] = UnlockStep => i = j
        /\ c = "ATD" => HadIn(r, <<"set", Idle>>)
        /\ c # "ATH" => HadIn(r, GiveUpStep(a))
    BY RefusedSteps
  <1>4. PICK s : Refuses(a, c, s) BY RefusedGoes
  <1>5. /\ Len(s) = Len(r) /\ \A i \in 1..Len(r) : s[i] = r[i]
        /\ Full(a, s) \/ (Dropped(a, s) /\ Keeps(a))
        /\ Keeps(a) /\ Went(a, s)
        /\ c # "ATH" => Len(todo'[a]) = Len(s)
    BY <1>4 DEF Refuses
  <1> HIDE DEF r
  <1>8. Tidy(a, s)
    <2>2. <<"set", Idle>> \in {"set"} \X CallStates BY SetStates
    <2>. QED BY <1>2, <1>5, <2>2 DEF Tidy
  <1>9. Rebooting => Rebooting' BY <1>1, <1>5, RebootingKept DEF Cfun
  <1>10. Timeout => Timeout' BY LateKept
  <1>11. ~NoCarrier' BY DEF NoCarrier
  <1>12. Timeout' \/ modem' = modem BY DEF Timeout, Unless
  <1>13. Ended => Ended' BY <1>9, <1>10, <1>12 DEF Ended, InCall
  <1>14. c = "ATD" => Ended
    <2>1. c = "ATD" => Ending(todo[a][1]) BY <1>1 DEF Ending
    <2>. QED BY <1>1, <2>1 DEF WInv, Endings
  <1>15. \A i \in 1..Len(s) : Ending(s[i]) => Ended'
    <2>1. ~Ending(UnlockStep) /\ ~Ending(GiveUpStep(a)) BY GiveUpPlain DEF Ending, UnlockStep
    <2>. QED BY <1>2, <1>5, <1>13, <1>14, <2>1
  <1>16. Works(a, s) /\ opMu = a
    BY <1>5, <1>8, <1>13, <1>15, TidyWorks
  <1>17. /\ \A b \in Actors : \A x : Had(b, <<"set", x>>) => Had(b, <<"set", x>>)'
         /\ \A x : Has(<<"set", x>>) => Has(<<"set", x>>)'
    BY <1>0, <1>1, <1>5, SetsKept
  <1>18. EndComes'
    <2>1. CASE Timeout' BY <2>1 DEF EndComes, Timeout, Unless
    <2>2. CASE modem' = modem
      <3>1. ~NoCarrier BY DEF NoCarrier
      <3>2. Unless({"late", "timeout"}) => Unless({"late", "timeout"})' BY LateKept
      <3>. QED BY <1>17, <2>2, <3>1, <3>2 DEF WInv, EndComes
    <2>. QED BY <1>12, <2>1, <2>2
  <1>19. CallComes'
    <2>1. CASE Timeout' BY <2>1 DEF CallComes
    <2>2. CASE modem' = modem
      <3>1. Locking(todo[a][1]) BY <1>1 DEF Locking, Command
      <3>2. \A x : ~Had(a, <<"set", x>>) BY <1>0, <1>1, <3>1, CommandAlone, NotHad DEF WInv
      <3>. QED BY <1>9, <1>10, <1>16, <2>2, <3>2 DEF WInv, CallComes, InCall
    <2>. QED BY <1>12, <2>1, <2>2
  <1>20. Unready' BY <1>9, <1>10, <1>12 DEF WInv, Unready, InCall
  <1>. QED BY <1>11, <1>16, <1>18, <1>19, <1>20, WorksKept

\* The reply to any command.
LEMMA ReplyFollows ==
  ASSUME IInv, WInv, NEW a \in Actors, NEW c \in Commands, Reply(a, c)
  PROVE  WInv'
  <1>1. /\ Doing(a, "at", c) /\ UNCHANGED <<urcs, call, opMu, ofSession>> /\ urcs = <<>>
        /\ races \subseteq races' /\ todo[Loop] = <<>>
    BY DEF Reply, sessionVars, Race
  <1>2. CASE c = "CFUN" BY <1>2, RebootFinished
  <1>3. CASE c # "CFUN" /\ Then(a, Accepted(c)) /\ modem' = Effect(c) /\ uac' = uac /\ uac # "gone"
             /\ (c = "ATD" => modem = "none") /\ (c = "ATA" => modem = "ringing")
    <2>1. c \in {"ATD", "ATA"} => modem' # "none" BY <1>3 DEF Effect
    <2>2. (c = "ATH" => modem' = "none") /\ (c = "QPCMV" => modem' = modem) BY <1>3 DEF Effect
    <2>. QED BY <1>1, <1>3, <2>1, <2>2, AcceptedFollows
  <1>4. CASE /\ GoRefused(a, c) /\ c # "CFUN" /\ uac' = uac
             /\ modem' = modem \/ (uac # "gone" /\ modem' = Effect(c))
             /\ Race(IF modem' # modem \/ c \in {"ATH", "CFUN"} THEN {"timeout"} ELSE {})
    <2>1. (modem' = modem \/ ("timeout" \in races' /\ uac # "gone"))
          /\ (c = "ATH" => "timeout" \in races')
      BY <1>4 DEF Race
    <2>2. CASE c \in {"ATD", "ATA", "ATH"} BY <1>1, <1>4, <2>1, <2>2, RefusedFollows
    <2>3. CASE c = "QPCMV"
      <3>1. Refused(a, c) = Accepted(c) /\ ~Abandons(c, Tail(todo[a])) /\ modem' = modem
        BY <1>4, <2>3 DEF Refused, Abandons, Effect
      <3>2. Then(a, Accepted(c)) BY <1>4, <3>1 DEF Then, GoRefused
      <3>. QED BY <1>1, <1>4, <2>3, <3>1, <3>2, AcceptedFollows
    <2>. QED BY <1>4, <2>2, <2>3 DEF Commands
  <1>5. c # "CFUN" => uac' = uac BY DEF Reply
  <1>. QED BY <1>2, <1>3, <1>4, <1>5 DEF Reply, Then, GoRefused

-----------------------------------------------------------------------------
(* WInv is invariant.                                                      *)

LEMMA WInit ==
  ASSUME Init
  PROVE  WInv
  <1> USE DEF Init
  <1>1. \A b \in Actors : todo[b] = <<>> /\ \A i \in 1..Len(todo[b]) : FALSE
    OBVIOUS
  <1>2. Places /\ Locks /\ Origins /\ Endings BY <1>1 DEF Places, Locks, Origins, Endings
  <1>3. EndComes BY DEF EndComes, Idle, CallState
  <1>4. CallComes /\ ~NoCarrier BY DEF CallComes, NoCarrier, InCall
  <1>5. DialsFresh BY <1>1 DEF DialsFresh, Actors, Legs
  <1>6. RebootGoesOn
    <2>1. "web" \in Actors BY DEF Actors
    <2>. QED BY <1>1, <2>1 DEF RebootGoesOn, Had, HadIn
  <1>7. Unready BY DEF Unready
  <1>. QED BY <1>2, <1>3, <1>4, <1>5, <1>6, <1>7 DEF WInv

LEMMA WStep ==
  ASSUME IInv, WInv, NEW a \in Actors, Step(a)
  PROVE  WInv'
  <1>1. CASE Dial(a) \/ Answer(a) \/ Hangup(a) BY <1>1, DialsFollow
  <1>2. CASE Unlock(a) BY <1>2, UnlockFollows
  <1>3. CASE CloseSession(a) \/ EndSessionCallFromModem(a) BY <1>3, EndsFollow
  <1>4. ASSUME NEW l \in Legs,
               \/ EndLegFromModem(a, l) \/ Close(a, l)
               \/ ClearSipCall(a, l) \/ Closed(a, l) \/ RespondSDP(a, l)
        PROVE  WInv'
    BY <1>4, EndsFollow
  <1>5. ASSUME NEW l \in Legs, \/ HandleLegEnded(a, l) \/ ClaimSipCall(a, l)
                               \/ ClaimLine(a, l) \/ WaitAnswer(a, l)
        PROVE  WInv'
    BY <1>5, LegEndedFollows, ClaimFollows, ClaimLineFollows
  <1>6. ASSUME NEW x, SetCallState(a, x) \/ SyncModemState(a, x) PROVE WInv'
    BY <1>6, SetFollows, SyncFollows
  <1>. QED BY <1>1, <1>2, <1>3, <1>4, <1>5, <1>6 DEF Step

LEMMA WNext ==
  ASSUME IInv, WInv, [Next]_vars
  PROVE  WInv'
  <1>1. CASE Network BY <1>1, RemoteFollows, NetworkFollows DEF Network
  <1>2. CASE Api
    <2>1. CASE HangupSIP
      <3>1. "web" \in Actors BY DEF Actors
      <3>. QED BY <2>1, <3>1, EndsFollow
    <2>2. CASE ~HangupSIP
      BY <1>2, <2>2, WebFollows, RebootFollows, UnreadyFollows, NetworkFollows DEF Api
    <2>. QED BY <2>1, <2>2
  <1>3. CASE SyncSIPInbound \/ NewSIPInboundGateway BY <1>3, NetworkFollows, NewGatewayFollows
  <1>4. CASE HandleURC BY <1>4, LineFollows
  <1>5. ASSUME NEW a \in Actors, Step(a) \/ \E c \in Commands : Reply(a, c) PROVE WInv'
    BY <1>5, WStep, ReplyFollows
  <1>6. CASE UNCHANGED vars BY <1>6, RemoteFollows
  <1>. QED BY <1>1, <1>2, <1>3, <1>4, <1>5, <1>6 DEF Next

LEMMA WInvariance == Spec => []WInv
  BY Invariance, WInit, WNext, PTL DEF Spec

\* Nobody has anything to do.
LEMMA QuietFacts ==
  ASSUME Quiet
  PROVE  /\ \A a \in Actors : \A t : ~Had(a, t)
         /\ \A t : ~Has(t)
         /\ ~Rebooting /\ ~NoCarrier
  <1>1. \A a \in Actors : \A i \in 1..Len(todo[a]) : FALSE
    <2>1. \A a \in Actors : todo[a] = <<>> BY DEF Quiet
    <2>. QED BY <2>1
  <1>2. \A a \in Actors : \A t : ~Had(a, t) BY <1>1 DEF Had, HadIn
  <1>3. "web" \in Actors BY DEF Actors
  <1>4. ~NoCarrier BY DEF Quiet, NoCarrier
  <1>. QED BY <1>2, <1>3, <1>4 DEF Has, Rebooting

\* When all is quiet the worker holds a call for idle exactly if the modem has
\* none (StateFollowsModem): a call that Dial or Answer brought about is set by
\* the holder of callOpMu before it lets it go, and an end, a NO CARRIER, the
\* Hangup or a reboot, by whoever met it; and none of them overtakes another,
\* unless an end was reported late or a command timed out.
THEOREM WorkerFollowsModem == Spec => []StateFollowsModem
  <1>1. ASSUME IInv, WInv PROVE StateFollowsModem
    <2> SUFFICES ASSUME Quiet, modem # "ringing", ~Unless({"late", "timeout"})
                 PROVE  call.state = "idle" <=> modem = "none"
      BY DEF StateFollowsModem
    <2>1. modem \in {"none", "calling", "ringing", "talking"} BY <1>1 DEF IInv, Typed, TypeOK
    <2>2. ~Timeout BY DEF Timeout, Unless
    <2>3. modem = "none" => call.state = "idle"
      BY <1>1, QuietFacts DEF WInv, EndComes
    <2>4. call.state = "idle" => ~InCall
      BY <1>1, <2>2, QuietFacts DEF WInv, CallComes
    <2>. QED BY <2>1, <2>3, <2>4 DEF InCall
  <1>. QED BY <1>1, Invariance, WInvariance, PTL

-----------------------------------------------------------------------------
(* What a leg has to do with the modem's call.                             *)

\* The handler of leg l has still to place or to answer the modem's call.
Prepares(t) == t[1] \in {"dial", "answer", "wait"} \/ t \in {<<"at", "ATD">>, <<"at", "ATA">>}
Preparing(l) == \E t : Had(l, t) /\ Prepares(t)

\* A leg knows the gateway of its time, and only a ring has an INVITE out.
LinesKnown == \A l \in Legs : ofGw[l] # None => ofGw[l] <= gw /\ l \in Lined
RingsArmed == \A l \in Legs : invite[l] # "none" => l \in Rings

\* A leg that has not claimed its line is not active, nor ended by the modem.
Claims(l) == {<<"claim", l>>, <<"claimLine", l>>}
Unclaimed ==
    \A l \in Lined : ofGw[l] = None \/ (\E a \in Actors, t \in Claims(l) : Had(a, t)) =>
        l \notin byModem /\ \A g \in Gateways : active[g] # l

\* An active ring whose INVITE is out, cancelled or not, waits for the phone, or is
\* being closed.
Out(l) == invite[l] # "none" /\ \E g \in Gateways : active[g] = l
RingWaits == \A l \in Legs : Out(l) /\ Preparing(l) => Had(l, <<"wait", l>>)

ClosesRing(b, l, t) == t \in {<<"close", l>>, <<"legEnded", l>>} \/ (b = l /\ t = <<"wait", l>>)
RingEnds ==
    \A l \in Legs : Out(l) => Early \/ \E b \in Actors : \E t : Had(b, t) /\ ClosesRing(b, l, t)

\* The active leg of a line without a call is being set up, or on its way out.
Moving(b, l, t) ==
    \/ t \in {<<"close", l>>, <<"legEnded", l>>, <<"endLeg", l>>}
    \/ \E x \in Idling : t = <<"sync", x>>
    \/ b = l /\ (Prepares(t) \/ \E x \in CallStates \ Idling : t = <<"set", x>>)
OnTheMove(l) == \E b \in Actors : \E t : Had(b, t) /\ Moving(b, l, t)
LegGoesOn ==
    up /\ active[gw] # None /\ call.state = "idle" => Early \/ OnTheMove(active[gw])

\* A leg that is being set up is open; a call of DialSIP never goes to the modem.
PreparesOpen == \A l \in Lined : Preparing(l) => closing[l] = "open" \/ Early
DialsOut == \A d \in Dials : \A t : Had(d, t) /\ Prepares(t) => t[1] = "wait"

\* A leg that the modem ended goes on only until it hears of it.
ByModemLined == byModem \subseteq Lined
Told(l) ==
    \/ Early
    \/ invite[l] = "cancelled" /\ Had(l, <<"wait", l>>)
    \/ \E b \in Actors \ {l} : Doing(b, "close", l) /\ Origin(b)
ModemEndsFirst == \A l \in byModem : Preparing(l) => Told(l)

\* The leg that has the modem's call is not one the modem ended ...
EarlyOrTimeout == Unless({"early", "timeout"})
OwnerKnown ==
    InCall /\ owner \in Legs =>
        owner \notin Dials /\ (owner \in byModem => EarlyOrTimeout \/ Rebooting)
\* ... and hangs up when it is closed.
ReleaseComes ==
    InCall /\ owner \in Legs /\ closing[owner] # "open" =>
        \/ EarlyOrTimeout \/ Rebooting \/ Has(<<"hangup", None>>) \/ Has(<<"at", "ATH">>)
        \/ Has(<<"legEnded", owner>>) /\ owner \notin byModem

\* Together with IInv and WInv, this is inductive.
GInv == LinesKnown /\ RingsArmed /\ Unclaimed /\ RingWaits /\ RingEnds /\ LegGoesOn
        /\ PreparesOpen /\ DialsOut /\ ByModemLined /\ ModemEndsFirst /\ OwnerKnown /\ ReleaseComes

-----------------------------------------------------------------------------
\* Goroutine a has done its first step, put the steps of X on its stack and
\* lost nothing that matters.
Goes(a, X) ==
    /\ Others(a) /\ Keeps(a)
    /\ \A t \in X : HadIn(todo'[a], t)
    /\ \A t : HadIn(todo'[a], t) => t \in X \/ \E k \in 1..Len(todo[a]) : k > 1 /\ todo[a][k] = t

LEMMA WentGoes ==
  ASSUME Typed, NEW a \in Actors, NEW steps, Went(a, steps), Keeps(a), NEW X,
         \A i \in 1..Len(steps) : steps[i] \in X,
         \A t \in X : HadIn(steps, t)
  PROVE  Goes(a, X)
  <1>1. \A t \in X : HadIn(todo'[a], t) BY HadSteps
  <1>2. ASSUME NEW t, HadIn(todo'[a], t)
        PROVE  t \in X \/ \E k \in 1..Len(todo[a]) : k > 1 /\ todo[a][k] = t
    <2>1. PICK i \in 1..Len(todo'[a]) : todo'[a][i] = t BY <1>2 DEF HadIn
    <2>2. \/ i \in 1..Len(steps) /\ todo'[a][i] = steps[i]
          \/ \E k \in 1..Len(todo[a]) : k > 1 /\ todo'[a][i] = todo[a][k]
      BY Elements
    <2>. QED BY <2>1, <2>2
  <1>. QED BY <1>1, <1>2 DEF Goes, Went

LEMMA GoesNone ==
  ASSUME Typed, NEW a \in Actors, todo[a] # <<>>, Then(a, <<>>)
  PROVE  Goes(a, {})
  <1> DEFINE s == <<>>
  <1>1. Full(a, s) /\ Keeps(a) BY ThenNone
  <1>2. \A i \in 1..Len(s) : FALSE OBVIOUS
  <1> HIDE DEF s
  <1>. QED BY <1>1, <1>2, WentGoes DEF Full

LEMMA GoesOne ==
  ASSUME Typed, NEW a \in Actors, todo[a] # <<>>, NEW t, Then(a, <<t>>)
  PROVE  Goes(a, {t})
  <1> DEFINE s == <<t>>
  <1>1. Full(a, s) /\ Keeps(a) BY ThenOne
  <1>2. Len(s) = 1 /\ s[1] = t OBVIOUS
  <1> HIDE DEF s
  <1>3. (\A i \in 1..Len(s) : s[i] \in {t}) /\ HadIn(s, t) BY <1>2, Ranges DEF HadIn
  <1>. QED BY <1>1, <1>3, WentGoes DEF Full

LEMMA GoesStart ==
  ASSUME Typed, NEW a \in Actors, todo[a] = <<>>, NEW S, NEW steps \in Seq(S),
         todo' = [todo EXCEPT ![a] = steps], NEW X,
         \A i \in 1..Len(steps) : steps[i] \in X,
         \A t \in X : HadIn(steps, t)
  PROVE  Goes(a, X)
  <1>1. Full(a, steps) /\ Keeps(a) BY StartFull
  <1>. QED BY <1>1, WentGoes DEF Full

LEMMA GoesStill ==
  ASSUME NEW a \in Actors, todo' = todo, todo[a] = <<>>
  PROVE  Goes(a, {})
  <1>1. \A b \in Actors : \A t : Had(b, t) => HadIn(todo'[b], t) BY DEF Had
  <1>2. \A i \in 1..Len(todo[a]) : FALSE
    <2>1. Len(todo[a]) = 0 OBVIOUS
    <2>. QED BY <2>1
  <1>3. \A t : ~HadIn(todo'[a], t) BY <1>2 DEF HadIn
  <1>. QED BY <1>1, <1>3 DEF Goes, Others, Keeps

\* What is on a stack after the step.
LEMMA GoesBack ==
  ASSUME Typed, NEW a \in Actors, NEW X, Goes(a, X), NEW b \in Actors, NEW t, HadIn(todo'[b], t)
  PROVE  \/ b = a /\ t \in X
         \/ Had(b, t) /\ (b = a => \E k \in 1..Len(todo[a]) : k > 1 /\ todo[a][k] = t)
         \/ b # a /\ b \in Rings /\ todo[b] = <<>> /\ t = <<"wait", b>>
  <1>1. CASE b = a BY <1>1 DEF Goes, Had, HadIn
  <1>2. CASE b # a /\ todo'[b] = todo[b] BY <1>2 DEF Had
  <1>3. CASE b # a /\ b \in Rings /\ todo[b] = <<>> /\ todo'[b] = <<<<"wait", b>>>>
    <2>1. PICK i \in 1..Len(todo'[b]) : todo'[b][i] = t BY DEF HadIn
    <2>2. Len(todo'[b]) = 1 /\ todo'[b][1] = <<"wait", b>> BY <1>3
    <2>. QED BY <1>3, <2>1, <2>2, Ranges
  <1>. QED BY <1>1, <1>2, <1>3 DEF Goes, Others

LEMMA PreparesFirst ==
  ASSUME NEW t, Prepares(t)
  PROVE  First(t) /\ t[1] \in {"dial", "answer", "wait", "at"} /\ t # Cfun
  BY DEF Prepares, First, Command, Cfun

\* What a handler prepares comes first.
LEMMA PreparesHead ==
  ASSUME Typed, Places, NEW a \in Actors, NEW t, Had(a, t), First(t)
  PROVE  todo[a] # <<>> /\ t = todo[a][1]
  <1>1. todo[a] = <<>> => Len(todo[a]) = 0 OBVIOUS
  <1>. QED BY <1>1 DEF Had, HadIn, Places

\* Who prepares a call after the step.
LEMMA NewPrepares ==
  ASSUME Typed, Places, NEW a \in Actors, NEW X, Goes(a, X), NEW b \in Actors, NEW t,
         HadIn(todo'[b], t), Prepares(t)
  PROVE  \/ b = a /\ t \in X
         \/ b # a /\ Had(b, t)
         \/ b # a /\ b \in Rings /\ todo[b] = <<>> /\ t = <<"wait", b>>
  <1>1. ASSUME NEW k \in 1..Len(todo[a]), k > 1, todo[a][k] = t PROVE FALSE
    BY <1>1, PreparesFirst DEF Places
  <1>. QED BY <1>1, GoesBack

-----------------------------------------------------------------------------
(* The parts of GInv that a step leaves alone.                             *)

\* The other goroutines do not move.
Stays(a) == \A b \in Actors : b # a => todo'[b] = todo[b]
\* The phone has answered: a ring that was cancelled then goes on, too early.
Answered(l) == ~Out(l)' /\ (invite[l] = "cancelled" => Early')
\* A handler that prepares a call prepared it before.
Prepared(a, X) ==
    \A t \in X : Prepares(t) =>
        \/ todo[a] # <<>> /\ Prepares(todo[a][1]) /\ todo[a][1][1] # "wait"
        \/ todo[a] # <<>> /\ Prepares(todo[a][1]) /\ a \in Lined /\ Answered(a)
        \/ a \notin Lined /\ (a \in Dials => t[1] = "wait")
\* No leg takes a line, no INVITE goes out, no leg is closed.
ActiveFrame == \A g \in Gateways : active'[g] \in {active[g], None}
InviteFrame ==
    \A l \in Legs : /\ invite'[l] = "armed" => invite[l] = "armed"
                    /\ invite[l] = "cancelled" => invite'[l] = "cancelled" \/ Early'
                    /\ invite'[l] # "none" => invite[l] # "none"
ClosingFrame == \A l \in Legs : closing'[l] # "open" => closing[l] # "open"

LEMMA HadPrime ==
  /\ \A b, t : Had(b, t)' <=> HadIn(todo'[b], t)
  /\ \A b : Preparing(b)' <=> \E t : HadIn(todo'[b], t) /\ Prepares(t)
  BY DEF Had, HadIn, Preparing

LEMMA LegNames ==
  /\ Legs \subseteq Actors /\ Lined \subseteq Legs /\ None \notin Legs /\ None \notin Actors
  /\ \A d \in Dials : d \notin Lined /\ d \in Legs
  BY NamesAssumption DEF Actors, Legs, Lined

\* A leg of the gateway that prepares a call did so before.
LEMMA StillPreparing ==
  ASSUME Typed, Places, NEW a \in Actors, NEW X, Goes(a, X), Stays(a), Prepared(a, X),
         NEW l \in Lined, Preparing(l)'
  PROVE  Preparing(l) /\ (l = a => todo[a] # <<>> /\ (todo[a][1][1] # "wait" \/ Answered(a)))
  <1>1. PICK t : HadIn(todo'[l], t) /\ Prepares(t) BY HadPrime
  <1>0. l \in Actors BY LegNames
  <1>2. CASE l # a BY <1>0, <1>1, <1>2 DEF Stays, Preparing, Had
  <1>3. CASE l = a
    <2>1. t \in X BY <1>1, <1>3, NewPrepares
    <2>2. todo[a] # <<>> /\ Prepares(todo[a][1]) /\ (todo[a][1][1] # "wait" \/ Answered(a))
      BY <1>1, <1>3, <2>1 DEF Prepared
    <2>3. Had(a, todo[a][1]) BY <2>2, StackFacts DEF Had, HadIn
    <2>. QED BY <1>3, <2>2, <2>3 DEF Preparing
  <1>. QED BY <1>2, <1>3

\* Unclaimed legs stay so.
LEMMA UnclaimedKept ==
  ASSUME Typed, Unclaimed, NEW a \in Actors, NEW X, Goes(a, X), ActiveFrame,
         \A l \in Lined : ofGw'[l] = None => ofGw[l] = None,
         \A l \in Lined : l \in byModem' => l \in byModem \/ \E g \in Gateways : active[g] = l,
         \A l \in Lined, t \in X : t \in Claims(l) =>
             ofGw[l] = None \/ (todo[a] # <<>> /\ todo[a][1] \in Claims(l))
  PROVE  Unclaimed'
  <1> SUFFICES ASSUME NEW l \in Lined,
                      ofGw'[l] = None \/ \E b \in Actors, t \in Claims(l) : HadIn(todo'[b], t)
               PROVE  l \notin byModem' /\ \A g \in Gateways : active'[g] # l
    BY HadPrime DEF Unclaimed, Claims
  <1>1. ofGw[l] = None \/ \E b \in Actors, t \in Claims(l) : Had(b, t)
    <2>1. CASE ofGw'[l] = None BY <2>1
    <2>2. ASSUME NEW b \in Actors, NEW t \in Claims(l), HadIn(todo'[b], t)
          PROVE  ofGw[l] = None \/ Had(b, t) \/ (todo[a] # <<>> /\ todo[a][1] \in Claims(l))
      <3>1. t[1] # "wait" BY DEF Claims
      <3>. QED BY <2>2, <3>1, GoesBack
    <2>3. todo[a] # <<>> => Had(a, todo[a][1]) BY StackFacts DEF Had, HadIn
    <2>. QED BY <2>1, <2>2, <2>3
  <1>2. l \notin byModem /\ \A g \in Gateways : active[g] # l BY <1>1 DEF Unclaimed
  <1>3. l # None BY LegNames
  <1>. QED BY <1>2, <1>3 DEF ActiveFrame

\* No INVITE goes out.
LEMMA OutKept ==
  ASSUME ActiveFrame, InviteFrame, NEW l \in Legs, Out(l)'
  PROVE  Out(l)
  BY LegNames DEF ActiveFrame, InviteFrame, Out

LEMMA RingWaitsKept ==
  ASSUME Typed, Places, RingsArmed, RingWaits, NEW a \in Actors, NEW X, Goes(a, X), Stays(a), Prepared(a, X),
         ActiveFrame, InviteFrame
  PROVE  RingWaits'
  <1> SUFFICES ASSUME NEW l \in Legs, Out(l)', Preparing(l)' PROVE HadIn(todo'[l], <<"wait", l>>)
    BY HadPrime DEF RingWaits
  <1>1. l \in Actors /\ Out(l) /\ l \in Lined
    BY LegNames, OutKept DEF RingsArmed, Out, Lined
  <1>2. Preparing(l) /\ (l = a => todo[a] # <<>> /\ todo[a][1][1] # "wait")
    <2>1. l = a => ~Answered(a) BY DEF Answered, Out
    <2>. QED BY <1>1, <2>1, StillPreparing
  <1>3. Had(l, <<"wait", l>>) BY <1>1, <1>2 DEF RingWaits
  <1>4. First(<<"wait", l>>) BY DEF First
  <1>5. l # a BY <1>1, <1>2, <1>3, <1>4, PreparesHead
  <1>. QED BY <1>1, <1>3, <1>5 DEF Stays, Had

LEMMA RingEndsKept ==
  ASSUME RingEnds, NEW a \in Actors, Keeps(a), ActiveFrame, InviteFrame, races \subseteq races',
         \A l \in Legs : todo[a] # <<>> /\ ClosesRing(a, l, todo[a][1]) /\ Out(l) /\ Out(l)' =>
             Early' \/ \E b \in Actors : \E t : HadIn(todo'[b], t) /\ ClosesRing(b, l, t)
  PROVE  RingEnds'
  <1> SUFFICES ASSUME NEW l \in Legs, Out(l)', ~Early'
               PROVE  \E b \in Actors : \E t : HadIn(todo'[b], t) /\ ClosesRing(b, l, t)
    BY HadPrime DEF RingEnds, ClosesRing
  <1>1. Out(l) /\ ~Early BY OutKept, RacesKept
  <1>2a. PICK b \in Actors : \E t : Had(b, t) /\ ClosesRing(b, l, t) BY <1>1 DEF RingEnds
  <1>2. PICK t : Had(b, t) /\ ClosesRing(b, l, t) BY <1>2a
  <1>3. t[1] \notin {"respond", "closeSession"} BY <1>2 DEF ClosesRing
  <1>4. todo[b] # <<>>
    <2>1. todo[b] = <<>> => Len(todo[b]) = 0 OBVIOUS
    <2>. QED BY <1>2, <2>1 DEF Had, HadIn
  <1>5. CASE b = a /\ t = todo[a][1] BY <1>1, <1>2, <1>4, <1>5
  <1>6. CASE ~(b = a /\ t = todo[a][1]) BY <1>2, <1>3, <1>6 DEF Keeps
  <1>. QED BY <1>5, <1>6

LEMMA MovesKept ==
  ASSUME NEW l, OnTheMove(l), NEW a \in Actors, Keeps(a),
         todo[a] # <<>> /\ Moving(a, l, todo[a][1]) => OnTheMove(l)' \/ Early'
  PROVE  OnTheMove(l)' \/ Early'
  <1>2a. PICK b \in Actors : \E t : Had(b, t) /\ Moving(b, l, t) BY DEF OnTheMove
  <1>2. PICK t : Had(b, t) /\ Moving(b, l, t) BY <1>2a
  <1>3. t[1] \notin {"respond", "closeSession"} BY <1>2 DEF Moving, Prepares
  <1>4. todo[b] # <<>>
    <2>1. todo[b] = <<>> => Len(todo[b]) = 0 OBVIOUS
    <2>. QED BY <1>2, <2>1 DEF Had, HadIn
  <1>5. CASE b = a /\ t = todo[a][1] BY <1>2, <1>4, <1>5
  <1>6. CASE ~(b = a /\ t = todo[a][1])
    <2>1. HadIn(todo'[b], t) BY <1>2, <1>3, <1>6 DEF Keeps
    <2>. QED BY <1>2, <2>1, HadPrime DEF OnTheMove, Moving
  <1>. QED BY <1>5, <1>6

\* The active leg goes on.
LEMMA LegGoesOnKept ==
  ASSUME Typed, LegGoesOn, NEW a \in Actors, Keeps(a), ActiveFrame, UNCHANGED gw, up' => up, races \subseteq races',
         call'.state = "idle" => call.state = "idle",
         \A l \in Legs : l = active[gw] /\ l = active'[gw] /\ call.state = "idle" /\ todo[a] # <<>>
                           /\ Moving(a, l, todo[a][1]) => OnTheMove(l)' \/ Early'
  PROVE  LegGoesOn'
  <1> SUFFICES ASSUME up', active'[gw] # None, call'.state = "idle"
               PROVE  Early' \/ \E l : l = active'[gw] /\ OnTheMove(l)'
    BY DEF LegGoesOn, OnTheMove, Moving
  <1>1. gw \in Gateways BY DEF Typed, TypeOK
  <1>2. up /\ active'[gw] = active[gw] /\ active[gw] # None BY <1>1 DEF ActiveFrame
  <1>3. PICK l : l = active[gw] OBVIOUS
  <1>4. Early \/ OnTheMove(l) BY <1>2, <1>3 DEF LegGoesOn
  <1>5. todo[a] # <<>> /\ Moving(a, l, todo[a][1]) => OnTheMove(l)' \/ Early'
    <2>1. l \in Legs BY <1>1, <1>2, <1>3 DEF Typed, TypeOK
    <2>. QED BY <1>2, <1>3, <2>1
  <1>. QED BY <1>2, <1>3, <1>4, <1>5, RacesKept, MovesKept

LEMMA PreparesOpenKept ==
  ASSUME Typed, Places, PreparesOpen, NEW a \in Actors, NEW X, Goes(a, X), Stays(a), Prepared(a, X),
         ClosingFrame, races \subseteq races'
  PROVE  PreparesOpen'
  <1> SUFFICES ASSUME NEW l \in Lined, Preparing(l)' PROVE closing'[l] = "open" \/ Early'
    BY DEF PreparesOpen, Preparing, Prepares
  <1>1. l \in Actors /\ l \in Legs BY LegNames
  <1>2. Preparing(l) BY <1>1, StillPreparing
  <1>. QED BY <1>1, <1>2, RacesKept DEF PreparesOpen, ClosingFrame

LEMMA DialsOutKept ==
  ASSUME Typed, Places, DialsOut, NEW a \in Actors, NEW X, Goes(a, X), Stays(a), Prepared(a, X)
  PROVE  DialsOut'
  <1> SUFFICES ASSUME NEW d \in Dials, NEW t, HadIn(todo'[d], t), Prepares(t) PROVE t[1] = "wait"
    BY HadPrime DEF DialsOut
  <1>1. d \in Actors BY LegNames
  <1>2. CASE d # a BY <1>1, <1>2 DEF Stays, DialsOut, Had
  <1>3. CASE d = a
    <2>1. t \in X BY <1>3, NewPrepares
    <2>2. t[1] = "wait" \/ (todo[a] # <<>> /\ Prepares(todo[a][1]) /\ todo[a][1][1] # "wait")
      BY <1>3, <2>1, LegNames DEF Prepared
    <2>3. todo[a] # <<>> => Had(a, todo[a][1]) BY StackFacts DEF Had, HadIn
    <2>. QED BY <1>3, <2>2, <2>3 DEF DialsOut
  <1>. QED BY <1>2, <1>3

\* Who is told of the end, and by whom, stays, but for what the step closes.
LEMMA DoingKept ==
  ASSUME Typed, Locks, NEW a \in Actors, Keeps(a), Others(a), OpMoves(a),
         NEW b \in Actors, b # a, NEW l, Doing(b, "close", l), Origin(b)
  PROVE  (Doing(b, "close", l) /\ Origin(b))'
  <1>1. todo[b] # <<>> /\ todo'[b] = todo[b] BY DEF Doing, Others
  <1>2. Origin(b)' BY OriginKept
  <1>. QED BY <1>1, <1>2 DEF Doing

\* A leg that the modem ended hears of it.
LEMMA ToldKept ==
  ASSUME Typed, Places, Locks, NEW a \in Actors, NEW X, Goes(a, X), OpMoves(a),
         races \subseteq races', NEW l \in Legs, Told(l),
         l # a \/ ~Had(l, <<"wait", l>>) \/ (invite[l] = "cancelled" => Early'),
         invite[l] = "cancelled" => invite'[l] = "cancelled" \/ Early',
         todo[a] # <<>> /\ todo[a][1] = <<"close", l>> /\ l # a => Early'
  PROVE  Told(l)'
  <1>1. CASE Early BY <1>1, RacesKept DEF Told, Early
  <1>2. CASE invite[l] = "cancelled" /\ Had(l, <<"wait", l>>)
    <2>0. CASE Early' BY <2>0 DEF Told, Early
    <2>1. CASE ~Early'
      <3>1. l \in Actors /\ l # a BY <1>2, <2>1, LegNames
      <3>2. HadIn(todo'[l], <<"wait", l>>)
        <4>1. \E u : u = <<"wait", l>> /\ Had(l, u) /\ u[1] = "wait" BY <1>2
        <4>. QED BY <3>1, <4>1 DEF Goes, Keeps
      <3>. QED BY <1>2, <2>1, <3>2, HadPrime DEF Told
    <2>. QED BY <2>0, <2>1
  <1>3. ASSUME NEW b \in Actors \ {l}, Doing(b, "close", l), Origin(b) PROVE Told(l)'
    <2>1. CASE b = a
      <3>1. todo[a] # <<>> /\ todo[a][1] = <<"close", l>> BY <1>3, <2>1, StepFacts
      <3>. QED BY <1>3, <2>1, <3>1 DEF Told, Early
    <2>2. CASE b # a
      <3>1. (Doing(b, "close", l) /\ Origin(b))' BY <1>3, <2>2, DoingKept DEF Goes
      <3>. QED BY <1>3, <3>1 DEF Told
    <2>. QED BY <2>1, <2>2
  <1>. QED BY <1>1, <1>2, <1>3 DEF Told

LEMMA ModemEndsFirstKept ==
  ASSUME Typed, Places, Locks, ModemEndsFirst, ByModemLined, NEW a \in Actors, NEW X, Goes(a, X),
         Stays(a), Prepared(a, X), InviteFrame, UNCHANGED byModem, OpMoves(a), races \subseteq races',
         \A l \in byModem : todo[a] # <<>> /\ todo[a][1] = <<"close", l>> /\ l # a /\ Preparing(l) => Early'
  PROVE  ModemEndsFirst'
  <1> SUFFICES ASSUME NEW l \in byModem, Preparing(l)' PROVE Told(l)'
    BY DEF ModemEndsFirst, Preparing, Told, Prepares
  <1>1. l \in Actors /\ l \in Legs /\ l \in Lined BY LegNames DEF ByModemLined
  <1>2. Preparing(l) /\ (l = a => todo[a] # <<>> /\ (todo[a][1][1] # "wait" \/ Answered(a)))
    BY <1>1, StillPreparing
  <1>3. Told(l) BY <1>2 DEF ModemEndsFirst
  <1>4. First(<<"wait", l>>) BY DEF First
  <1>5. l # a \/ ~Had(l, <<"wait", l>>) \/ (invite[l] = "cancelled" => Early')
    BY <1>1, <1>2, <1>4, PreparesHead DEF Answered
  <1>. QED BY <1>1, <1>2, <1>3, <1>5, ToldKept DEF InviteFrame

LEMMA EarlyOrTimeoutKept ==
  ASSUME races \subseteq races', EarlyOrTimeout
  PROVE  EarlyOrTimeout'
  BY DEF EarlyOrTimeout, Unless

\* The call keeps its owner, who hangs up when closed.
LEMMA OwnerKnownKept ==
  ASSUME OwnerKnown, NEW a \in Actors, Keeps(a), races \subseteq races', UNCHANGED <<owner, byModem>>,
         InCall' => InCall, todo[a] # <<>> => todo[a][1] # Cfun
  PROVE  OwnerKnown'
  <1>1. Rebooting => Rebooting' BY RebootingKept
  <1>. QED BY <1>1, EarlyOrTimeoutKept DEF OwnerKnown

LEMMA ReleaseComesKept ==
  ASSUME ReleaseComes, NEW a \in Actors, Keeps(a), races \subseteq races', UNCHANGED <<owner, byModem>>,
         ClosingFrame, InCall' => InCall,
         todo[a] # <<>> => /\ todo[a][1] # Cfun /\ todo[a][1] # <<"hangup", None>>
                           /\ todo[a][1] # <<"at", "ATH">> /\ todo[a][1] # <<"legEnded", owner>>
  PROVE  ReleaseComes'
  <1> SUFFICES ASSUME InCall', owner \in Legs, closing'[owner] # "open", ~EarlyOrTimeout', ~Rebooting'
               PROVE  \/ Has(<<"hangup", None>>)' \/ Has(<<"at", "ATH">>)'
                      \/ \E l : l = owner /\ Has(<<"legEnded", l>>)' /\ owner \notin byModem
    BY DEF ReleaseComes, Has, Had, HadIn
  <1>1. ~EarlyOrTimeout /\ ~Rebooting BY RebootingKept, EarlyOrTimeoutKept
  <1>2. InCall /\ closing[owner] # "open" BY DEF ClosingFrame
  <1>3. PICK l : l = owner OBVIOUS
  <1>4. Has(<<"hangup", None>>) => Has(<<"hangup", None>>)' BY HasKept
  <1>5. Has(<<"at", "ATH">>) => Has(<<"at", "ATH">>)' BY HasKept
  <1>6. Has(<<"legEnded", l>>) => Has(<<"legEnded", l>>)' BY <1>3, HasKept
  <1>. QED BY <1>1, <1>2, <1>3, <1>4, <1>5, <1>6 DEF ReleaseComes

\* A step of goroutine a that begins no call, takes no line and marks no leg.
LinesFrame ==
    /\ gw' = gw /\ (up' => up)
    /\ \A l \in Legs : ofGw'[l] = ofGw[l] \/ (l \in Lined /\ ofGw'[l] = gw)
ClaimsFrame(a, X) ==
    \A l \in Lined, t \in X : t \in Claims(l) =>
        ofGw[l] = None \/ (todo[a] # <<>> /\ todo[a][1] \in Claims(l))
Aside(a, X) ==
    /\ Goes(a, X) /\ Stays(a) /\ Prepared(a, X) /\ OpMoves(a)
    /\ races \subseteq races' /\ UNCHANGED byModem
    /\ ActiveFrame /\ InviteFrame /\ LinesFrame /\ ClaimsFrame(a, X)

LEMMA LinesKnownKept ==
  ASSUME Typed, LinesKnown, LinesFrame
  PROVE  LinesKnown'
  <1>0. gw \in 1..MaxGateways BY DEF Typed, TypeOK, Gateways
  <1>1. gw \in Nat BY <1>0, BoundsAssumption
  <1>. QED BY <1>1 DEF LinesKnown, LinesFrame

LEMMA GwKnown ==
  ASSUME Typed
  PROVE  gw \in Gateways /\ gw # None
  BY NamesAssumption DEF Typed, TypeOK

\* What any such step keeps.
LEMMA AsideFrame ==
  ASSUME IInv, WInv, GInv, NEW a \in Actors, NEW X, Aside(a, X)
  PROVE  LinesKnown' /\ RingsArmed' /\ Unclaimed' /\ RingWaits' /\ DialsOut' /\ ByModemLined'
  <1>0. Typed /\ Places BY DEF IInv, WInv
  <1>1. LinesKnown' BY <1>0, LinesKnownKept DEF GInv, Aside
  <1>2. RingsArmed' BY DEF GInv, Aside, InviteFrame, RingsArmed
  <1>3. Unclaimed'
    <2>1. \A l \in Lined : ofGw'[l] = None => ofGw[l] = None
      BY <1>0, GwKnown, LegNames DEF Aside, LinesFrame
    <2>. QED BY <1>0, <2>1, UnclaimedKept DEF GInv, Aside, ClaimsFrame
  <1>4. RingWaits' BY <1>0, RingWaitsKept DEF GInv, Aside
  <1>5. DialsOut' BY <1>0, DialsOutKept DEF GInv, Aside
  <1>6. ByModemLined' BY DEF GInv, Aside, ByModemLined
  <1>. QED BY <1>1, <1>2, <1>3, <1>4, <1>5, <1>6

\* What else the step may not do away with.
Calls(a) ==
    /\ call'.state = "idle" => call.state = "idle"
    /\ InCall' => InCall
    /\ UNCHANGED owner /\ ClosingFrame
Harmless == {"unlock", "closeSession", "endSession", "hangupSip", "clearSip", "closed", "respond",
             "reboot", "unready", "newGateway", "claim", "claimLine"}

LEMMA HarmlessFacts ==
  ASSUME NEW a, NEW l, NEW t, t[1] \in Harmless
  PROVE  /\ ~ClosesRing(a, l, t) /\ ~Moving(a, l, t) /\ t # Cfun
         /\ t # <<"hangup", None>> /\ t # <<"at", "ATH">> /\ t # <<"legEnded", l>> /\ t # <<"close", l>>
  BY DEF Harmless, ClosesRing, Moving, Prepares, Cfun

\* A step that no leg waits for keeps GInv.
LEMMA AsideKept ==
  ASSUME IInv, WInv, GInv, NEW a \in Actors, NEW X, Aside(a, X), Calls(a),
         todo[a] # <<>> => todo[a][1][1] \in Harmless
  PROVE  GInv'
  <1>0. Typed /\ Places /\ Locks /\ Keeps(a) BY DEF IInv, WInv, Aside, Goes
  <1>1. RingEnds' BY <1>0, HarmlessFacts, RingEndsKept DEF GInv, Aside
  <1>2. LegGoesOn' BY <1>0, HarmlessFacts, LegGoesOnKept DEF GInv, Aside, LinesFrame, Calls
  <1>3. PreparesOpen' BY <1>0, PreparesOpenKept DEF GInv, Aside, Calls
  <1>4. ModemEndsFirst' BY <1>0, HarmlessFacts, ModemEndsFirstKept DEF GInv, Aside
  <1>5. OwnerKnown' BY <1>0, HarmlessFacts, OwnerKnownKept DEF GInv, Aside, Calls
  <1>6. ReleaseComes' BY <1>0, HarmlessFacts, ReleaseComesKept DEF GInv, Aside, Calls
  <1>. QED BY <1>1, <1>2, <1>3, <1>4, <1>5, <1>6, AsideFrame DEF GInv

\* Nothing moves but the modem and its lines.
LEMMA StillModem ==
  ASSUME GInv, UNCHANGED <<call, gw, up, active, invite, ofGw, closing, byModem, opMu, todo, owner, races>>,
         InCall' => InCall
  PROVE  GInv'
  <1>1. LinesKnown' /\ RingsArmed' /\ Unclaimed' /\ ByModemLined'
    BY DEF GInv, LinesKnown, RingsArmed, Unclaimed, ByModemLined, Claims, Had, HadIn
  <1>2. RingWaits' /\ RingEnds'
    <2>1. RingWaits' BY DEF GInv, RingWaits, Out, Preparing, Had, HadIn
    <2>2. (Early <=> Early') /\ \A l \in Legs : Out(l) <=> Out(l)' BY DEF Early, Unless, Out
    <2>3. RingEnds' BY <2>2 DEF GInv, RingEnds, Had, HadIn, ClosesRing
    <2>. QED BY <2>1, <2>3
  <1>3. LegGoesOn' BY DEF GInv, LegGoesOn, OnTheMove, Moving, Had, HadIn, Early, Unless
  <1>4. PreparesOpen' /\ DialsOut'
    BY DEF GInv, PreparesOpen, DialsOut, Preparing, Had, HadIn, Early, Unless
  <1>5. ModemEndsFirst'
    BY DEF GInv, ModemEndsFirst, Told, Preparing, Had, HadIn, Early, Unless, Doing, Origin, Rebooting, Cfun
  <1>6. OwnerKnown' /\ ReleaseComes'
    <2>1. (Rebooting <=> Rebooting') /\ (EarlyOrTimeout <=> EarlyOrTimeout')
          /\ \A t : Has(t) <=> \E b \in Actors : HadIn(todo'[b], t)
      BY DEF Rebooting, EarlyOrTimeout, Unless, Cfun, Has, Had, HadIn
    <2>2. \A t : Has(t) => \E b \in Actors : HadIn(todo'[b], t) BY <2>1
    <2>3. OwnerKnown' BY <2>1 DEF GInv, OwnerKnown
    <2>4. ReleaseComes'
      BY <2>1 DEF GInv, ReleaseComes, Has, Had
    <2>. QED BY <2>3, <2>4
  <1>. QED BY <1>1, <1>2, <1>3, <1>4, <1>5, <1>6 DEF GInv

\* Steps that prepare no call and claim nothing, and steps that leave the
\* lines, or the call, as they are.
Plain(t) == ~Prepares(t) /\ t[1] \notin {"claim", "claimLine"}
Same == UNCHANGED <<gw, up, active, invite, byModem, ofGw>> /\ races \subseteq races'
SameCall == UNCHANGED <<modem, call, owner>> /\ ClosingFrame

LEMMA SameFrame ==
  ASSUME Same
  PROVE  ActiveFrame /\ InviteFrame /\ LinesFrame /\ UNCHANGED byModem /\ races \subseteq races'
  BY DEF Same, ActiveFrame, InviteFrame, LinesFrame

LEMMA SameCalls ==
  ASSUME NEW a, SameCall
  PROVE  Calls(a)
  BY DEF SameCall, Calls, InCall

LEMMA PlainFrame ==
  ASSUME NEW a, NEW X, \A t \in X : Plain(t)
  PROVE  Prepared(a, X) /\ ClaimsFrame(a, X)
  BY DEF Plain, Prepared, ClaimsFrame, Claims

LEMMA ThenStays ==
  ASSUME Typed, NEW a \in Actors, NEW steps, Then(a, steps) \/ todo' = [todo EXCEPT ![a] = steps]
  PROVE  Stays(a)
  BY DEF Typed, Shape, Then, Stays

LEMMA NoneAside ==
  ASSUME Typed, NEW a \in Actors, todo[a] # <<>>, Then(a, <<>>), OpMoves(a), Same
  PROVE  Aside(a, {})
  BY GoesNone, ThenStays, SameFrame, PlainFrame DEF Aside

LEMMA OneAside ==
  ASSUME Typed, NEW a \in Actors, todo[a] # <<>>, NEW t, Then(a, <<t>>), Plain(t), OpMoves(a), Same
  PROVE  Aside(a, {t})
  <1>1. Goes(a, {t}) BY GoesOne
  <1>2. Prepared(a, {t}) /\ ClaimsFrame(a, {t}) BY PlainFrame
  <1>. QED BY <1>1, <1>2, ThenStays, SameFrame DEF Aside

LEMMA StartAside ==
  ASSUME Typed, NEW a \in Actors, todo[a] = <<>>, NEW S, NEW steps \in Seq(S),
         todo' = [todo EXCEPT ![a] = steps],
         \A i \in 1..Len(steps) : Plain(steps[i]) \/ (a \notin Legs /\ steps[i] = <<"dial", None>>),
         OpMoves(a), Same
  PROVE  \E X : Aside(a, X)
  <1> DEFINE X == {t \in S : HadIn(steps, t)}
  <1>1. \A i \in 1..Len(steps) : steps[i] \in S OBVIOUS
  <1>2. (\A i \in 1..Len(steps) : steps[i] \in X) /\ \A t \in X : HadIn(steps, t)
    BY <1>1 DEF HadIn
  <1>3. \A t \in X : Plain(t) \/ (a \notin Legs /\ t = <<"dial", None>>) BY DEF HadIn
  <1> HIDE DEF X
  <1>4. Goes(a, X) BY <1>2, GoesStart
  <1>5. Prepared(a, X) /\ ClaimsFrame(a, X)
    BY <1>3, LegNames DEF Plain, Prepared, ClaimsFrame, Claims
  <1>. QED BY <1>4, <1>5, ThenStays, SameFrame DEF Aside

LEMMA HarmlessStep ==
  ASSUME IInv, WInv, GInv, NEW a \in Actors, NEW h \in Harmless, NEW y, Doing(a, h, y), OpMoves(a),
         Same, SameCall, Then(a, <<>>) \/ \E t : Plain(t) /\ Then(a, <<t>>)
  PROVE  GInv'
  <1>0. Typed /\ todo[a] # <<>> /\ todo[a][1] = <<h, y>> /\ Calls(a)
    <2>1. Typed BY DEF IInv
    <2>. QED BY <2>1, StepFacts, SameCalls
  <1>1. todo[a][1][1] \in Harmless BY <1>0
  <1>2. \E X : Aside(a, X)
    <2>1. CASE Then(a, <<>>) BY <1>0, <2>1, NoneAside
    <2>2. ASSUME NEW t, Plain(t), Then(a, <<t>>) PROVE \E X : Aside(a, X)
      BY <1>0, <2>2, OneAside
    <2>. QED BY <2>1, <2>2
  <1>. QED BY <1>0, <1>1, <1>2, AsideKept

LEMMA PlainOnes ==
  /\ \A op \in PlainOps : \A x : Plain(<<op, x>>)
  /\ \A op \in {"set", "sync", "endLeg", "unlock", "reboot", "unready"} : \A x : Plain(<<op, x>>)
  /\ Plain(Cfun)
  BY DEF Plain, Prepares, PlainOps, Cfun

\* The steps that no leg waits for.
LEMMA HarmlessMoves ==
  ASSUME IInv, WInv, GInv, NEW a \in Actors,
         \/ Unlock(a) \/ CloseSession(a) \/ EndSessionCallFromModem(a) \/ (a = "web" /\ HangupSIP)
         \/ (a = "web" /\ (Reboot \/ SetUACReady))
         \/ \E l \in Legs : ClearSipCall(a, l) \/ Closed(a, l) \/ RespondSDP(a, l)
  PROVE  GInv'
  <1>0. Typed BY DEF IInv
  <1> DEFINE Only == Then(a, <<>>) \/ \E t : Plain(t) /\ Then(a, <<t>>)
  <1>1. CASE Unlock(a)
    <2>1. Doing(a, "unlock", None) /\ Same /\ SameCall /\ Then(a, <<>>)
      BY <1>1 DEF Unlock, Same, SameCall, ClosingFrame, gatewayVars, legVars
    <2>2. todo[a] # <<>> /\ todo[a][1] = UnlockStep BY <1>0, <2>1, StepFacts DEF UnlockStep
    <2>3. OpMoves(a) BY <2>2 DEF OpMoves, Locking
    <2>4. "unlock" \in Harmless BY DEF Harmless
    <2>. QED BY <2>1, <2>3, <2>4, HarmlessStep
  <1>2. CASE CloseSession(a)
    <2>1. Doing(a, "closeSession", None) /\ Same /\ SameCall /\ OpMoves(a)
      BY <1>2 DEF CloseSession, Same, SameCall, ClosingFrame, workerVars, gatewayVars, legVars, OpMoves
    <2>2. Then(a, <<>>) \/ \E op \in {"close", "locked"} : \E l : Then(a, <<<<op, l>>>>)
      BY <1>2 DEF CloseSession
    <2>3. Only BY <2>2, PlainOnes DEF PlainOps
    <2>4. "closeSession" \in Harmless BY DEF Harmless
    <2>. QED BY <2>1, <2>3, <2>4, HarmlessStep
  <1>3. CASE EndSessionCallFromModem(a)
    <2>1. Doing(a, "endSession", None) /\ Same /\ SameCall /\ OpMoves(a)
      BY <1>3 DEF EndSessionCallFromModem, Same, SameCall, ClosingFrame, workerVars, gatewayVars, legVars, OpMoves, Race
    <2>2. Then(a, <<>>) \/ \E l : Then(a, <<<<"close", l>>>>) BY <1>3 DEF EndSessionCallFromModem
    <2>3. Only BY <2>2, PlainOnes DEF PlainOps
    <2>4. "endSession" \in Harmless BY DEF Harmless
    <2>. QED BY <2>1, <2>3, <2>4, HarmlessStep
  <1>4. CASE a = "web" /\ HangupSIP
    <2>1. Doing(a, "hangupSip", None) /\ Same /\ SameCall /\ OpMoves(a)
      BY <1>4 DEF HangupSIP, Same, SameCall, ClosingFrame, workerVars, gatewayVars, legVars, OpMoves
    <2>2. Then(a, <<>>) \/ \E l : Then(a, <<<<"close", l>>>>) BY <1>4 DEF HangupSIP
    <2>3. Only BY <2>2, PlainOnes DEF PlainOps
    <2>4. "hangupSip" \in Harmless BY DEF Harmless
    <2>. QED BY <2>1, <2>3, <2>4, HarmlessStep
  <1>5. CASE a = "web" /\ Reboot
    <2>1. Doing(a, "reboot", None) /\ Same /\ SameCall /\ OpMoves(a)
      BY <1>5 DEF Reboot, Same, SameCall, ClosingFrame, workerVars, gatewayVars, legVars, OpMoves
    <2>2. \E x : Then(a, <<<<"set", x>>>>) BY <1>5 DEF Reboot
    <2>3. Only BY <2>2, PlainOnes
    <2>4. "reboot" \in Harmless BY DEF Harmless
    <2>. QED BY <2>1, <2>3, <2>4, HarmlessStep
  <1>7. CASE a = "web" /\ SetUACReady
    <2>1. Doing(a, "unready", None) /\ Same /\ SameCall /\ OpMoves(a) /\ Then(a, <<>>)
      BY <1>7 DEF SetUACReady, Same, SameCall, ClosingFrame, gatewayVars, legVars, OpMoves
    <2>2. "unready" \in Harmless BY DEF Harmless
    <2>. QED BY <2>1, <2>2, HarmlessStep
  <1>6. ASSUME NEW l \in Legs, ClearSipCall(a, l) \/ Closed(a, l) \/ RespondSDP(a, l)
        PROVE  GInv'
    <2>1. CASE ClearSipCall(a, l)
      <3>1. Doing(a, "clearSip", l) /\ Same /\ SameCall /\ OpMoves(a) /\ Then(a, <<>>)
        BY <2>1 DEF ClearSipCall, Same, SameCall, ClosingFrame, workerVars, gatewayVars, legVars, OpMoves
      <3>2. "clearSip" \in Harmless BY DEF Harmless
      <3>. QED BY <3>1, <3>2, HarmlessStep
    <2>2. CASE Closed(a, l)
      <3>1. Doing(a, "closed", l) /\ Same /\ OpMoves(a) /\ Then(a, <<>>)
            /\ UNCHANGED <<modem, call, owner>> /\ closing' = [closing EXCEPT ![l] = "done"]
        BY <2>2 DEF Closed, Same, workerVars, gatewayVars, OpMoves
      <3>2. todo[a][1] = <<"closed", l>> /\ 1 \in 1..Len(todo[a]) BY <1>0, <3>1, StepFacts
      <3>3. <<"closed", l>> \in {"legEnded", "closed"} \X {l} OBVIOUS
      <3>4. closing[l] # "open" BY <3>2, <3>3 DEF IInv, Order, CloseOnce
      <3>5. closing \in [Legs -> {"open", "running", "done"}] BY <1>0 DEF Typed, TypeOK
      <3>6. ClosingFrame BY <3>1, <3>4, <3>5 DEF ClosingFrame
      <3>7. "closed" \in Harmless BY DEF Harmless
      <3>. QED BY <3>1, <3>6, <3>7, HarmlessStep DEF SameCall
    <2>3. CASE RespondSDP(a, l)
      <3>1. Doing(a, "respond", l) /\ Same /\ SameCall /\ OpMoves(a)
        BY <2>3 DEF RespondSDP, Same, SameCall, ClosingFrame, workerVars, gatewayVars, legVars, OpMoves
      <3>2. Then(a, <<>>) \/ Then(a, <<<<"close", l>>>>) BY <2>3 DEF RespondSDP
      <3>3. Only BY <3>2, PlainOnes DEF PlainOps
      <3>4. "respond" \in Harmless BY DEF Harmless
      <3>. QED BY <3>1, <3>3, <3>4, HarmlessStep
    <2>. QED BY <1>6, <2>1, <2>2, <2>3
  <1>. QED BY <1>1, <1>2, <1>3, <1>4, <1>5, <1>6, <1>7

-----------------------------------------------------------------------------
(* GInv, action by action: the steps that start something.                 *)

\* Goroutines that start with such steps.
LEMMA HarmlessStart ==
  ASSUME IInv, WInv, GInv, NEW a \in Actors, todo[a] = <<>>, NEW S, NEW steps \in Seq(S),
         todo' = [todo EXCEPT ![a] = steps],
         \A i \in 1..Len(steps) : Plain(steps[i]) \/ (a \notin Legs /\ steps[i] = <<"dial", None>>),
         UNCHANGED opMu, Same, SameCall
  PROVE  GInv'
  <1>1. OpMoves(a) BY DEF OpMoves
  <1>2. Typed BY DEF IInv
  <1>3. \E X : Aside(a, X) BY <1>1, <1>2, StartAside
  <1>4. Calls(a) BY SameCalls
  <1>. QED BY <1>3, <1>4, AsideKept

\* One step, or none.
LEMMA HarmlessStartOne ==
  ASSUME IInv, WInv, GInv, NEW a \in Actors, todo[a] = <<>>, NEW t,
         \/ todo' = [todo EXCEPT ![a] = <<>>] \/ todo' = [todo EXCEPT ![a] = <<t>>],
         Plain(t) \/ (a \notin Legs /\ t = <<"dial", None>>), UNCHANGED opMu, Same, SameCall
  PROVE  GInv'
  <1> DEFINE none == <<>>  one == <<t>>
  <1>1. none \in Seq({t}) /\ one \in Seq({t}) /\ (\A i \in 1..Len(none) : FALSE)
        /\ Len(one) = 1 /\ one[1] = t
    OBVIOUS
  <1>2. todo' = [todo EXCEPT ![a] = none] \/ todo' = [todo EXCEPT ![a] = one] OBVIOUS
  <1> HIDE DEF none, one
  <1>3. \A i \in 1..Len(one) : one[i] = t BY <1>1, Ranges
  <1>4. CASE todo' = [todo EXCEPT ![a] = none] BY <1>1, <1>4, HarmlessStart
  <1>5. CASE todo' = [todo EXCEPT ![a] = one]
    <2>1. \A i \in 1..Len(one) : Plain(one[i]) \/ (a \notin Legs /\ one[i] = <<"dial", None>>) BY <1>3
    <2>. QED BY <1>1, <1>5, <2>1, HarmlessStart
  <1>. QED BY <1>2, <1>4, <1>5

\* The requests of the console.
LEMMA WebStarts ==
  ASSUME IInv, WInv, GInv, WebDial \/ WebHangup \/ WebReboot
  PROVE  GInv'
  <1> DEFINE a == "web"
  <1>0. a \in Actors /\ a \notin Legs BY NamesAssumption DEF Actors
  <1>2. ASSUME NEW steps, Request(steps)
        PROVE  /\ UNCHANGED opMu /\ Same /\ SameCall /\ todo[a] = <<>>
               /\ todo' = [todo EXCEPT ![a] = steps]
    BY <1>2 DEF Request, workerVars, gatewayVars, legVars, Same, SameCall, ClosingFrame
  <1>3. ASSUME NEW op \in {"dial", "closeSession", "hangupSip"}, Request(<<<<op, None>>>>)
        PROVE  GInv'
    <2>1. Plain(<<op, None>>) \/ (a \notin Legs /\ <<op, None>> = <<"dial", None>>)
      BY <1>0, PlainOnes DEF PlainOps
    <2> HIDE DEF a
    <2>. QED BY <1>0, <1>2, <1>3, <2>1, HarmlessStartOne
  <1> DEFINE h == <<"hangup", None>>  s == <<"closeSession", None>>  r == <<"reboot", None>>
             u == <<"unready", None>>  c == Cfun
  <1>4. Plain(h) /\ Plain(s) /\ Plain(r) /\ Plain(u) /\ Plain(c) BY PlainOnes DEF PlainOps
  <1>7. CASE Request(<<<<"hangup", None>>, <<"closeSession", None>>>>)
    <2> DEFINE two == <<h, s>>
    <2>1. todo' = [todo EXCEPT ![a] = two] /\ two \in Seq({h, s}) BY <1>2, <1>7
    <2>2. todo[a] = <<>> /\ UNCHANGED opMu /\ Same /\ SameCall BY <1>2, <1>7
    <2> HIDE DEF h, s, r, u, c, a
    <2>3. \A i \in 1..Len(two) : two[i] \in {h, s} BY <2>1
    <2> HIDE DEF two
    <2>5. \A i \in 1..Len(two) : Plain(two[i]) \/ (a \notin Legs /\ two[i] = <<"dial", None>>)
      BY <1>4, <2>3
    <2>. QED BY <1>0, <2>1, <2>2, <2>5, HarmlessStart
  <1>8. CASE Request(<<<<"closeSession", None>>, <<"reboot", None>>, <<"unready", None>>,
                   <<"at", "CFUN">>>>)
    <2> DEFINE four == <<s, r, u, c>>
    <2>1. todo' = [todo EXCEPT ![a] = four] /\ four \in Seq({s, r, u, c}) BY <1>2, <1>8 DEF Cfun
    <2>2. todo[a] = <<>> /\ UNCHANGED opMu /\ Same /\ SameCall BY <1>2, <1>8
    <2> HIDE DEF h, s, r, u, c, a
    <2>3. \A i \in 1..Len(four) : four[i] \in {s, r, u, c} BY <2>1
    <2> HIDE DEF four
    <2>5. \A i \in 1..Len(four) : Plain(four[i]) \/ (a \notin Legs /\ four[i] = <<"dial", None>>)
      BY <1>4, <2>3
    <2>. QED BY <1>0, <2>1, <2>2, <2>5, HarmlessStart
  <1>9. CASE WebDial BY <1>3, <1>9 DEF WebDial
  <1>10. CASE WebHangup BY <1>3, <1>7, <1>10 DEF WebHangup
  <1>11. CASE WebReboot BY <1>8, <1>11 DEF WebReboot
  <1>. QED BY <1>9, <1>10, <1>11

\* A line of the modem.
LEMMA LineStarts ==
  ASSUME IInv, WInv, GInv, HandleURC
  PROVE  GInv'
  <1> DEFINE a == Loop  line == Head(urcs)
  <1>0. Typed /\ a \in Actors /\ a \notin Legs
    BY NamesAssumption DEF IInv, Actors, Loop
  <1>1. todo[a] = <<>> /\ urcs # <<>> /\ UNCHANGED opMu /\ Same /\ SameCall
    BY DEF HandleURC, gatewayVars, legVars, Same, SameCall, ClosingFrame
  <1>2. urcs \in Seq(Lines) BY <1>0 DEF Typed, Shape
  <1>3. line \in {"RING", "CLCC", "ACTIVE", "NO CARRIER"} 
    <2>1. line \in Lines BY <1>1, <1>2
    <2>. QED BY <2>1 DEF Lines
  <1>4. \/ todo' = [todo EXCEPT ![a] = <<>>]
        \/ \E x : todo' = [todo EXCEPT ![a] = <<<<"set", x>>>>]
    BY <1>3 DEF HandleURC
  <1> HIDE DEF a
  <1>5. \A x : Plain(<<"set", x>>) BY PlainOnes
  <1>6. CASE todo' = [todo EXCEPT ![a] = <<>>] BY <1>0, <1>1, <1>5, <1>6, HarmlessStartOne
  <1>7. ASSUME NEW x, todo' = [todo EXCEPT ![a] = <<<<"set", x>>>>] PROVE GInv'
    BY <1>0, <1>1, <1>5, <1>7, HarmlessStartOne
  <1>. QED BY <1>4, <1>6, <1>7

\* The handler of a BYE.
LEMMA ByeStarts ==
  ASSUME IInv, WInv, GInv, NEW l \in Legs, OnBye(l)
  PROVE  GInv'
  <1>1. "bye" \in Actors /\ todo["bye"] = <<>> BY DEF OnBye, Actors
  <1>2. todo' = [todo EXCEPT !["bye"] = <<<<"close", l>>>>] /\ UNCHANGED opMu /\ Same /\ SameCall
    BY DEF OnBye, workerVars, gatewayVars, legVars, Same, SameCall, ClosingFrame
  <1>3. Plain(<<"close", l>>) BY PlainOnes DEF PlainOps
  <1>. QED BY <1>1, <1>2, <1>3, HarmlessStartOne

\* A handler that begins claims its place first.
LEMMA ClaimStarts ==
  ASSUME IInv, WInv, GInv, NEW l \in Legs, todo[l] = <<>>, todo' = [todo EXCEPT ![l] = <<<<"claim", l>>>>],
         UNCHANGED <<gw, up, active, invite, byModem, races, opMu>>, SameCall, LinesFrame,
         l \in Lined => ofGw[l] = None
  PROVE  GInv'
  <1> DEFINE t == <<"claim", l>>  one == <<t>>
  <1>0. Typed /\ l \in Actors BY LegNames DEF IInv
  <1>1. one \in Seq({t}) /\ Len(one) = 1 /\ one[1] = t /\ todo' = [todo EXCEPT ![l] = one]
    OBVIOUS
  <1>2. ~Prepares(t) /\ \A k \in Lined : t \in Claims(k) => k = l BY DEF Prepares, Claims
  <1> HIDE DEF one, t
  <1>3. (\A i \in 1..Len(one) : one[i] \in {t}) /\ \A u \in {t} : HadIn(one, u)
    BY <1>1, Ranges DEF HadIn
  <1>4. Goes(l, {t}) BY <1>0, <1>1, <1>3, GoesStart
  <1>5. Stays(l) BY <1>0, <1>1, ThenStays
  <1>6. Prepared(l, {t}) /\ ClaimsFrame(l, {t}) BY <1>2 DEF Prepared, ClaimsFrame
  <1>7. ActiveFrame /\ InviteFrame /\ OpMoves(l) BY DEF ActiveFrame, InviteFrame, OpMoves
  <1>8. Aside(l, {t}) BY <1>4, <1>5, <1>6, <1>7 DEF Aside
  <1>. QED BY <1>0, <1>8, SameCalls, AsideKept

\* An INVITE arrives, or DialSIP is called.
LEMMA HandlersStart ==
  ASSUME IInv, WInv, GInv, (\E i \in Invites : OnInvite(i)) \/ \E d \in Dials : DialSIP(d)
  PROVE  GInv'
  <1>0. Typed BY DEF IInv
  <1>1. ASSUME NEW i \in Invites, OnInvite(i) PROVE GInv'
    <2>1. i \in Legs /\ i \in Lined /\ todo[i] = <<>> /\ ofGw[i] = None
      BY <1>1 DEF OnInvite, Legs, IInv, Order, Fresh, Lined
    <2>2. ofGw \in [Legs -> Gateways \cup {None}] BY <1>0 DEF Typed, TypeOK
    <2>3. LinesFrame BY <1>1, <2>1, <2>2 DEF OnInvite, LinesFrame
    <2>4. /\ todo' = [todo EXCEPT ![i] = <<<<"claim", i>>>>] /\ SameCall
          /\ UNCHANGED <<gw, up, active, invite, byModem, races, opMu>>
      BY <1>1 DEF OnInvite, workerVars, legVars, SameCall, ClosingFrame
    <2>. QED BY <2>1, <2>3, <2>4, ClaimStarts
  <1>2. ASSUME NEW d \in Dials, DialSIP(d) PROVE GInv'
    <2>1. d \in Legs /\ d \notin Lined /\ todo[d] = <<>>
      BY <1>2, LegNames DEF DialSIP, WInv, DialsFresh
    <2>2. LinesFrame BY <1>2 DEF DialSIP, LinesFrame, gatewayVars
    <2>3. /\ todo' = [todo EXCEPT ![d] = <<<<"claim", d>>>>] /\ SameCall
          /\ UNCHANGED <<gw, up, active, invite, byModem, races, opMu>>
      BY <1>2 DEF DialSIP, workerVars, gatewayVars, legVars, SameCall, ClosingFrame
    <2>. QED BY <2>1, <2>2, <2>3, ClaimStarts
  <1>. QED BY <1>1, <1>2

\* The claim of the session's call.
LEMMA ClaimSipMoves ==
  ASSUME IInv, WInv, GInv, NEW a \in Actors, NEW l \in Legs, ClaimSipCall(a, l)
  PROVE  GInv'
  <1>0. Typed BY DEF IInv
  <1>1. Doing(a, "claim", l) /\ Same /\ SameCall /\ UNCHANGED opMu
    BY DEF ClaimSipCall, Same, SameCall, ClosingFrame, workerVars, gatewayVars, legVars, Race
  <1>2. todo[a] # <<>> /\ todo[a][1] = <<"claim", l>> /\ (l \in Rings \/ l = a) /\ OpMoves(a)
    BY <1>0, <1>1, StepFacts DEF OpMoves
  <1>3. "claim" \in Harmless BY DEF Harmless
  <1>4. CASE Then(a, <<>>) \/ Then(a, <<<<"close", l>>>>)
    <2>1. Plain(<<"close", l>>) BY PlainOnes DEF PlainOps
    <2>. QED BY <1>1, <1>2, <1>3, <1>4, <2>1, HarmlessStep
  <1>5. ASSUME NEW t, Then(a, <<t>>), Prepared(a, {t}), ClaimsFrame(a, {t}) PROVE GInv'
    <2>1. Goes(a, {t}) /\ Stays(a) BY <1>0, <1>2, <1>5, GoesOne, ThenStays
    <2>2. Aside(a, {t}) BY <1>1, <1>2, <1>5, <2>1, SameFrame DEF Aside
    <2>3. todo[a][1][1] \in Harmless BY <1>2, <1>3
    <2>. QED BY <1>1, <2>2, <2>3, SameCalls, AsideKept
  <1>6. CASE l \in Dials /\ Then(a, <<<<"wait", l>>>>)
    <2> DEFINE t == <<"wait", l>>
    <2>1. l = a /\ a \notin Lined BY <1>2, <1>6, LegNames DEF Lined
    <2>2. t[1] = "wait" /\ (\A k \in Lined : t \notin Claims(k)) /\ Then(a, <<t>>)
      BY <1>6 DEF Claims
    <2> HIDE DEF t
    <2>3. Prepared(a, {t}) /\ ClaimsFrame(a, {t}) BY <2>1, <2>2 DEF Prepared, ClaimsFrame
    <2>. QED BY <1>5, <2>2, <2>3
  <1>7. CASE l \notin Dials /\ Then(a, <<<<"claimLine", l>>>>)
    <2> DEFINE t == <<"claimLine", l>>
    <2>2. ~Prepares(t) /\ (\A k \in Lined : t \in Claims(k) => k = l) /\ Then(a, <<t>>)
          /\ todo[a][1] \in Claims(l)
      BY <1>2, <1>7 DEF Claims, Prepares
    <2> HIDE DEF t
    <2>3. Prepared(a, {t}) /\ ClaimsFrame(a, {t}) BY <1>2, <2>2 DEF Prepared, ClaimsFrame
    <2>. QED BY <1>5, <2>2, <2>3
  <1>. QED BY <1>4, <1>6, <1>7 DEF ClaimSipCall

-----------------------------------------------------------------------------
(* The steps of the worker.                                                *)

\* A step that hangs up, or passes it on.
LEMMA ReleaseComesMoved ==
  ASSUME ReleaseComes, NEW a \in Actors, Keeps(a), races \subseteq races', UNCHANGED <<owner, byModem>>,
         ClosingFrame, InCall' => InCall, todo[a] # <<>>, todo[a][1] # Cfun,
         (\/ todo[a][1] \in {<<"hangup", None>>, <<"at", "ATH">>}
          \/ todo[a][1] = <<"legEnded", owner>> /\ owner \notin byModem)
             => \/ ~InCall' \/ owner \notin Legs \/ EarlyOrTimeout' \/ Rebooting'
                \/ Has(<<"hangup", None>>)' \/ Has(<<"at", "ATH">>)'
  PROVE  ReleaseComes'
  <1> SUFFICES ASSUME InCall', owner \in Legs, closing'[owner] # "open", ~EarlyOrTimeout', ~Rebooting'
               PROVE  \/ Has(<<"hangup", None>>)' \/ Has(<<"at", "ATH">>)'
                      \/ \E l : l = owner /\ Has(<<"legEnded", l>>)' /\ owner \notin byModem
    BY DEF ReleaseComes, Has, Had, HadIn
  <1>1. ~EarlyOrTimeout /\ ~Rebooting BY RebootingKept, EarlyOrTimeoutKept
  <1>2. InCall /\ closing[owner] # "open" BY DEF ClosingFrame
  <1>3. PICK l : l = owner OBVIOUS
  <1>4. Has(<<"hangup", None>>) => Has(<<"hangup", None>>)' \/ todo[a][1] = <<"hangup", None>> BY HasKept
  <1>5. Has(<<"at", "ATH">>) => Has(<<"at", "ATH">>)' \/ todo[a][1] = <<"at", "ATH">> BY HasKept
  <1>6. Has(<<"legEnded", l>>) => Has(<<"legEnded", l>>)' \/ todo[a][1] = <<"legEnded", l>>
    BY <1>3, HasKept
  <1>. QED BY <1>1, <1>2, <1>3, <1>4, <1>5, <1>6 DEF ReleaseComes

\* A step of the kind above that leaves the leg and the call as they should be.
LEMMA AsideMoves ==
  ASSUME IInv, WInv, GInv, NEW a \in Actors, NEW X, Aside(a, X), NEW h, NEW y,
         todo[a] # <<>>, todo[a][1] = <<h, y>>, h \notin {"wait", "close", "legEnded", "at"},
         InCall' => InCall, UNCHANGED owner, ClosingFrame, LegGoesOn', ReleaseComes'
  PROVE  GInv'
  <1>0. Typed /\ Places /\ Locks /\ Keeps(a) BY DEF IInv, WInv, Aside, Goes
  <1>1. RingEnds'
    <2>1. \A l : ~ClosesRing(a, l, todo[a][1]) BY DEF ClosesRing
    <2>. QED BY <1>0, <2>1, RingEndsKept DEF GInv, Aside
  <1>2. PreparesOpen' BY <1>0, PreparesOpenKept DEF GInv, Aside
  <1>3. ModemEndsFirst'
    <2>1. \A l : todo[a][1] # <<"close", l>> OBVIOUS
    <2>. QED BY <1>0, <2>1, ModemEndsFirstKept DEF GInv, Aside
  <1>4. OwnerKnown'
    <2>1. todo[a][1] # Cfun BY DEF Cfun
    <2>. QED BY <1>0, <2>1, OwnerKnownKept DEF GInv, Aside
  <1>. QED BY <1>1, <1>2, <1>3, <1>4, AsideFrame DEF GInv

\* A call attempt that is refused is given up.
LEMMA GiveUpMoves ==
  ASSUME IInv, WInv, NEW a \in Actors, NEW op \in {"dial", "answer"}, Doing(a, op, None),
         \/ op = "dial" /\ todo' = [todo EXCEPT ![a] = GiveUp(a)]
         \/ op = "answer" /\ Then(a, GiveUp(a)),
         UNCHANGED opMu, Same
  PROVE  Aside(a, {GiveUpStep(a)})
  <1>0. Typed /\ Places BY DEF IInv, WInv
  <1>1. todo[a] # <<>> /\ todo[a][1] = <<op, None>> BY <1>0, StepFacts
  <1> DEFINE t == GiveUpStep(a)  one == <<t>>
  <1>2. GiveUp(a) = one BY DEF GiveUp, GiveUpStep
  <1>3. Plain(t) BY PlainOnes DEF GiveUpStep, PlainOps
  <1>4. OpMoves(a) BY DEF OpMoves
  <1>5. CASE op = "answer"
    <2>1. Then(a, <<t>>) BY <1>2, <1>5
    <2> HIDE DEF t
    <2>. QED BY <1>0, <1>1, <1>3, <1>4, <2>1, OneAside DEF t
  <1>6. CASE op = "dial"
    <2>1. todo' = [todo EXCEPT ![a] = one] BY <1>2, <1>6
    <2>2. one \in Seq({t}) /\ Len(one) = 1 /\ one[1] = t OBVIOUS
    <2> HIDE DEF one, t
    <2>3. Dropped(a, one) BY <1>0, <2>1, <2>2, StartDropped
    <2>4. Lone(a, todo[a][1]) BY <1>1, <1>6 DEF Lone
    <2>5. Keeps(a) BY <1>0, <1>1, <2>3, <2>4, DroppedKeeps
    <2>6. (\A i \in 1..Len(one) : one[i] \in {t}) /\ \A u \in {t} : HadIn(one, u)
      BY <2>2, Ranges DEF HadIn
    <2>7. Goes(a, {t}) BY <1>0, <2>3, <2>5, <2>6, WentGoes DEF Dropped
    <2>8. Stays(a) BY <1>0, <2>1, ThenStays
    <2>9. Prepared(a, {t}) /\ ClaimsFrame(a, {t}) BY <1>3, PlainFrame
    <2>. QED BY <1>4, <2>7, <2>8, <2>9, SameFrame DEF Aside, t
  <1>. QED BY <1>5, <1>6

\* The command is on its way.
LEMMA TakeMoves ==
  ASSUME IInv, NEW a \in Actors, NEW op \in {"dial", "answer", "hangup"}, Doing(a, op, None),
         opMu = None, NEW c \in {"ATD", "ATA", "ATH", "QPCMV"}, Then(a, <<<<"at", c>>>>),
         c \in {"ATD", "ATA"} => op # "hangup", Same
  PROVE  Aside(a, {<<"at", c>>}) /\ HadIn(todo'[a], <<"at", c>>)
  <1>0. Typed BY DEF IInv
  <1>1. todo[a] # <<>> /\ todo[a][1] = <<op, None>> BY <1>0, StepFacts
  <1> DEFINE t == <<"at", c>>
  <1>2. Goes(a, {t}) /\ Stays(a) BY <1>0, <1>1, GoesOne, ThenStays
  <1>3. Prepared(a, {t})
    <2>1. Prepares(t) => c \in {"ATD", "ATA"} BY DEF Prepares
    <2>2. op # "hangup" => Prepares(todo[a][1]) /\ todo[a][1][1] # "wait" BY <1>1 DEF Prepares
    <2> HIDE DEF t
    <2>. QED BY <1>1, <2>1, <2>2 DEF Prepared
  <1>4. \A l \in Lined : t \notin Claims(l) BY DEF Claims
  <1> HIDE DEF t
  <1>5. ClaimsFrame(a, {t}) BY <1>4 DEF ClaimsFrame
  <1>6. OpMoves(a) BY DEF OpMoves
  <1>7. Aside(a, {t}) BY <1>2, <1>3, <1>5, <1>6, SameFrame DEF Aside
  <1>. QED BY <1>2, <1>7 DEF Goes, t

\* Dial and Answer.
LEMMA CallMoves ==
  ASSUME IInv, WInv, GInv, NEW a \in Actors, Dial(a) \/ Answer(a)
  PROVE  GInv'
  <1>0. Typed /\ Same /\ SameCall
    BY DEF IInv, Dial, Answer, Same, SameCall, ClosingFrame, gatewayVars, legVars
  <1>01. InCall' => InCall BY <1>0 DEF SameCall, InCall
  <1>02. UNCHANGED <<owner, call, gw>> /\ ClosingFrame /\ races \subseteq races' BY <1>0 DEF SameCall, Same
  <1>1. ASSUME NEW op \in {"dial", "answer"}, Doing(a, op, None), NEW t, Aside(a, {t}),
               HadIn(todo'[a], t),
               \/ call.state # "idle"
               \/ \A l \in Legs : l = a => Moving(a, l, t)
        PROVE  GInv'
    <2>1. todo[a] # <<>> /\ todo[a][1] = <<op, None>> BY <1>0, <1>1, StepFacts
    <2>2. Keeps(a) BY <1>1 DEF Aside, Goes
    <2>3. ReleaseComes'
      <3>1. /\ todo[a][1] # Cfun /\ todo[a][1] # <<"hangup", None>>
            /\ todo[a][1] # <<"at", "ATH">> /\ todo[a][1] # <<"legEnded", owner>>
        BY <2>1 DEF Cfun
      <3>. QED BY <1>01, <1>02, <1>1, <2>2, <3>1, ReleaseComesKept DEF GInv, Aside
    <2>4. LegGoesOn'
      <3>1. CASE call.state # "idle" BY <1>02, <3>1 DEF LegGoesOn
      <3>2. CASE \A l \in Legs : l = a => Moving(a, l, t)
        <4>1. \A l \in Legs : Moving(a, l, todo[a][1]) => l = a BY <2>1 DEF Moving
        <4>2. ASSUME NEW l \in Legs, Moving(a, l, todo[a][1]) PROVE OnTheMove(l)'
          <5>1. Moving(a, l, t) /\ HadIn(todo'[a], t) BY <1>1, <3>2, <4>1, <4>2
          <5>. QED BY <5>1, HadPrime DEF OnTheMove, Moving
        <4>. QED BY <1>0, <1>02, <2>2, <4>2, LegGoesOnKept DEF GInv, Aside, Same, ActiveFrame
      <3>. QED BY <1>1, <3>1, <3>2
    <2>5. op \notin {"wait", "close", "legEnded", "at"} OBVIOUS
    <2>. QED BY <1>01, <1>02, <1>1, <2>1, <2>3, <2>4, <2>5, AsideMoves
  <1>2. CASE Dial(a)
    <2>1. Doing(a, "dial", None) /\ opMu = None BY <1>2 DEF Dial
    <2>2. CASE call.state # "idle"
      <3>1. todo' = [todo EXCEPT ![a] = GiveUp(a)] /\ UNCHANGED opMu BY <1>2, <2>2 DEF Dial
      <3>2. Aside(a, {GiveUpStep(a)}) BY <1>0, <2>1, <3>1, GiveUpMoves
      <3>3. HadIn(todo'[a], GiveUpStep(a)) BY <3>2 DEF Aside, Goes
      <3>. QED BY <1>1, <2>1, <2>2, <3>2, <3>3
    <2>3. CASE call.state = "idle"
      <3>1. Then(a, <<<<"at", "ATD">>>>) BY <1>2, <2>3 DEF Dial
      <3>2. Aside(a, {<<"at", "ATD">>}) /\ HadIn(todo'[a], <<"at", "ATD">>)
        BY <1>0, <2>1, <3>1, TakeMoves
      <3>3. \A l \in Legs : l = a => Moving(a, l, <<"at", "ATD">>) BY DEF Moving, Prepares
      <3>. QED BY <1>1, <2>1, <3>2, <3>3
    <2>. QED BY <2>2, <2>3
  <1>3. CASE Answer(a)
    <2>1. Doing(a, "answer", None) /\ opMu = None BY <1>3 DEF Answer
    <2>2. CASE call.state = "idle" \/ ~call.incoming
      <3>1. Then(a, GiveUp(a)) /\ UNCHANGED opMu BY <1>3, <2>2 DEF Answer
      <3>2. Aside(a, {GiveUpStep(a)}) BY <1>0, <2>1, <3>1, GiveUpMoves
      <3>3. HadIn(todo'[a], GiveUpStep(a)) BY <3>2 DEF Aside, Goes
      <3>4. \A l \in Legs : l = a => Moving(a, l, GiveUpStep(a))
        BY NamesAssumption DEF Moving, GiveUpStep
      <3>. QED BY <1>1, <2>1, <3>2, <3>3, <3>4
    <2>3. CASE ~(call.state = "idle" \/ ~call.incoming)
      <3>1. Then(a, <<<<"at", "ATA">>>>) BY <1>3, <2>3 DEF Answer
      <3>2. Aside(a, {<<"at", "ATA">>}) /\ HadIn(todo'[a], <<"at", "ATA">>)
        BY <1>0, <2>1, <3>1, TakeMoves
      <3>. QED BY <1>1, <2>1, <2>3, <3>2
    <2>. QED BY <2>2, <2>3
  <1>. QED BY <1>2, <1>3

\* Hangup: a call it holds for idle is none.
LEMMA HangupMoves ==
  ASSUME IInv, WInv, GInv, NEW a \in Actors, Hangup(a)
  PROVE  GInv'
  <1>0. Typed /\ Same /\ SameCall
    BY DEF IInv, Hangup, Same, SameCall, ClosingFrame, gatewayVars, legVars
  <1>01. InCall' => InCall BY <1>0 DEF SameCall, InCall
  <1>02. UNCHANGED <<owner, call, gw, byModem>> /\ ClosingFrame /\ races \subseteq races'
    BY <1>0 DEF SameCall, Same
  <1> DEFINE c == IF call.state = "idle" THEN "QPCMV" ELSE "ATH"
  <1>1. Doing(a, "hangup", None) /\ opMu = None /\ Then(a, <<<<"at", c>>>>) /\ c \in {"ATH", "QPCMV"}
    BY DEF Hangup
  <1>2. todo[a] # <<>> /\ todo[a][1] = <<"hangup", None>> BY <1>0, <1>1, StepFacts
  <1>3. c = "ATH" \/ call.state = "idle" OBVIOUS
  <1> HIDE DEF c
  <1>4. Aside(a, {<<"at", c>>}) /\ HadIn(todo'[a], <<"at", c>>) BY <1>0, <1>1, TakeMoves
  <1>5. Keeps(a) BY <1>4 DEF Aside, Goes
  <1>6. todo[a][1] # Cfun BY <1>2 DEF Cfun
  <1>7. LegGoesOn'
    <2>1. \A l \in Legs : ~Moving(a, l, todo[a][1]) BY <1>2 DEF Moving, Prepares
    <2>. QED BY <1>0, <1>02, <1>5, <2>1, LegGoesOnKept DEF GInv, Same, ActiveFrame
  <1>8. ReleaseComes'
    <2>1. CASE c = "ATH"
      <3>1. Has(<<"at", "ATH">>)' BY <1>4, <2>1, HadPrime DEF Has
      <3>. QED BY <1>01, <1>02, <1>2, <1>5, <1>6, <3>1, ReleaseComesMoved DEF GInv
    <2>2. CASE call.state = "idle"
      <3>1. opMu \notin Actors BY <1>1, LegNames
      <3>2. InCall => Timeout \/ Rebooting BY <2>2, <3>1 DEF WInv, CallComes
      <3>3. Timeout => EarlyOrTimeout BY DEF Timeout, EarlyOrTimeout, Unless
      <3>4. InCall' => EarlyOrTimeout' \/ Rebooting'
        BY <1>01, <1>02, <1>5, <1>6, <3>2, <3>3, RebootingKept, EarlyOrTimeoutKept
      <3>. QED BY <1>01, <1>02, <1>2, <1>5, <1>6, <3>4, ReleaseComesMoved DEF GInv
    <2>. QED BY <1>3, <2>1, <2>2
  <1>. QED BY <1>01, <1>02, <1>2, <1>4, <1>7, <1>8, AsideMoves

\* A change of the state, which reports an end.
LEMMA StateMoves ==
  ASSUME IInv, WInv, GInv, NEW a \in Actors, NEW x, SetCallState(a, x)
  PROVE  GInv'
  <1>0. Typed /\ Same /\ UNCHANGED <<modem, owner, closing, opMu>> /\ call' = x /\ Doing(a, "set", x)
    BY DEF IInv, SetCallState, Same, gatewayVars, legVars, Race
  <1>01. (InCall' => InCall) /\ ClosingFrame /\ OpMoves(a) BY <1>0 DEF InCall, ClosingFrame, OpMoves
  <1>02. gw' = gw /\ (up' => up) /\ races \subseteq races' /\ UNCHANGED <<owner, byModem>> /\ ActiveFrame
    BY <1>0 DEF Same, ActiveFrame
  <1>1. todo[a] # <<>> /\ todo[a][1] = <<"set", x>> /\ x \in CallStates BY <1>0, StepFacts
  <1>2. \/ Then(a, <<>>) /\ (x.state # "idle" \/ x = call)
        \/ \E y : Then(a, <<<<"sync", y>>>>) /\ (x.state = "idle" => y \in Idling)
    <2>1. x.state = "idle" => Reported(x) = x BY <1>1 DEF Reported, CallStates
    <2>2. x.state = "idle" => x \in Idling BY <1>1 DEF Idling
    <2>3. \/ Then(a, <<>>) /\ (x = call \/ Reported(x).state # "idle")
          \/ Then(a, <<<<"sync", Reported(x)>>>>)
      BY DEF SetCallState, Notify
    <2>. QED BY <2>1, <2>2, <2>3
  <1>3. ASSUME NEW X, Aside(a, X), LegGoesOn' PROVE GInv'
    <2>1. /\ todo[a][1] # Cfun /\ todo[a][1] # <<"hangup", None>>
          /\ todo[a][1] # <<"at", "ATH">> /\ todo[a][1] # <<"legEnded", owner>>
      BY <1>1 DEF Cfun
    <2>2. Keeps(a) BY <1>3 DEF Aside, Goes
    <2>3. ReleaseComes' BY <1>01, <1>02, <1>1, <2>1, <2>2, ReleaseComesKept DEF GInv
    <2>. QED BY <1>0, <1>01, <1>1, <1>3, <2>3, AsideMoves
  <1>4. CASE Then(a, <<>>) /\ (x.state # "idle" \/ x = call)
    <2>1. Aside(a, {}) BY <1>0, <1>01, <1>1, <1>4, NoneAside
    <2>2. LegGoesOn'
      <3>1. CASE x.state # "idle" BY <1>0, <3>1 DEF LegGoesOn
      <3>2. CASE x.state = "idle" /\ x = call
        <4>1. x \in Idling BY <1>1, <3>2 DEF Idling
        <4>2. \A l \in Legs : ~Moving(a, l, todo[a][1]) BY <1>1, <4>1 DEF Moving, Prepares
        <4>3. Keeps(a) BY <2>1 DEF Aside, Goes
        <4>. QED BY <1>0, <1>02, <3>2, <4>2, <4>3, LegGoesOnKept DEF GInv
      <3>. QED BY <1>4, <3>1, <3>2
    <2>. QED BY <1>3, <2>1, <2>2
  <1>5. ASSUME NEW y, Then(a, <<<<"sync", y>>>>), x.state = "idle" => y \in Idling PROVE GInv'
    <2> DEFINE t == <<"sync", y>>
    <2>1. Plain(t) BY PlainOnes
    <2>2. Then(a, <<t>>) BY <1>5
    <2>3. x.state = "idle" => \A l : Moving(a, l, t) BY <1>5 DEF Moving
    <2> HIDE DEF t
    <2>4. Aside(a, {t}) BY <1>0, <1>01, <1>1, <2>1, <2>2, OneAside
    <2>5. HadIn(todo'[a], t) BY <2>4 DEF Aside, Goes
    <2>6. LegGoesOn'
      <3>1. CASE x.state # "idle" BY <1>0, <3>1 DEF LegGoesOn
      <3>2. CASE x.state = "idle"
        <4>1. \A l : \E u : HadIn(todo'[a], u) /\ Moving(a, l, u) BY <2>3, <2>5, <3>2
        <4>2. \A l : OnTheMove(l)' BY <4>1 DEF OnTheMove, Had, HadIn, Moving
        <4>. QED BY <4>2 DEF LegGoesOn, OnTheMove, Moving
      <3>. QED BY <3>1, <3>2
    <2>. QED BY <1>3, <2>4, <2>6
  <1>. QED BY <1>2, <1>4, <1>5

\* The listener, which ends the active leg.
LEMMA SyncMoves ==
  ASSUME IInv, WInv, GInv, NEW a \in Actors, NEW x, SyncModemState(a, x)
  PROVE  GInv'
  <1> DEFINE leg == active[gw]
  <1>0. /\ Typed /\ SameCall /\ Doing(a, "sync", x) /\ UNCHANGED opMu
        /\ UNCHANGED <<gw, up, active, invite, byModem>> /\ races \subseteq races'
    BY DEF IInv, SyncModemState, SameCall, ClosingFrame, workerVars, legVars, Race
  <1>01. (InCall' => InCall) /\ ClosingFrame /\ OpMoves(a) /\ UNCHANGED <<owner, byModem, call, gw, up>>
         /\ ActiveFrame /\ InviteFrame
    BY <1>0 DEF InCall, SameCall, OpMoves, ActiveFrame, InviteFrame
  <1>1. todo[a] # <<>> /\ todo[a][1] = <<"sync", x>> /\ x \in CallStates BY <1>0, StepFacts
  <1>3. ASSUME NEW X, Aside(a, X), LegGoesOn' PROVE GInv'
    <2>1. /\ todo[a][1] # Cfun /\ todo[a][1] # <<"hangup", None>>
          /\ todo[a][1] # <<"at", "ATH">> /\ todo[a][1] # <<"legEnded", owner>>
      BY <1>1 DEF Cfun
    <2>2. Keeps(a) BY <1>3 DEF Aside, Goes
    <2>3. ReleaseComes' BY <1>0, <1>01, <1>1, <2>1, <2>2, ReleaseComesKept DEF GInv
    <2>. QED BY <1>0, <1>01, <1>1, <1>3, <2>3, AsideMoves
  <1>4. ASSUME NEW X, Aside(a, X), x.state # "idle" PROVE GInv'
    <2>1. \A l \in Legs : ~Moving(a, l, todo[a][1]) BY <1>1, <1>4 DEF Moving, Prepares, Idling
    <2>2. Keeps(a) BY <1>4 DEF Aside, Goes
    <2>3. LegGoesOn' BY <1>0, <1>01, <2>1, <2>2, LegGoesOnKept DEF GInv
    <2>. QED BY <1>3, <1>4, <2>3
  <1>5. CASE x.state = "idle" /\ up
    <2>1. Same BY <1>0, <1>5 DEF SyncModemState, Same
    <2>2. CASE leg # None
      <3> DEFINE t == <<"endLeg", leg>>
      <3>1. Then(a, <<t>>) BY <1>5, <2>2 DEF SyncModemState
      <3>2. Plain(t) BY PlainOnes
      <3>3. Moving(a, leg, t) BY DEF Moving
      <3> HIDE DEF t
      <3>4. Aside(a, {t}) BY <1>0, <1>01, <1>1, <2>1, <3>1, <3>2, OneAside
      <3>5. HadIn(todo'[a], t) BY <3>4 DEF Aside, Goes
      <3>6. PICK l : l = leg OBVIOUS
      <3>7. OnTheMove(l)' BY <3>3, <3>5, <3>6 DEF OnTheMove, Had, HadIn, Moving
      <3>8. LegGoesOn' BY <1>0, <3>6, <3>7 DEF LegGoesOn, OnTheMove, Moving
      <3>. QED BY <1>3, <3>4, <3>8
    <2>3. CASE leg = None
      <3> DEFINE t == <<"endSession", None>>
      <3>1. Then(a, <<t>>) BY <1>5, <2>3 DEF SyncModemState
      <3>2. Plain(t) BY PlainOnes DEF PlainOps
      <3> HIDE DEF t
      <3>4. Aside(a, {t}) BY <1>0, <1>01, <1>1, <2>1, <3>1, <3>2, OneAside
      <3>8. LegGoesOn' BY <1>0, <2>3 DEF LegGoesOn
      <3>. QED BY <1>3, <3>4, <3>8
    <2>. QED BY <2>2, <2>3
  <1>6. CASE (x.state # "idle" \/ ~up) /\ Then(a, <<>>) /\ UNCHANGED ofGw
    <2>1. Same BY <1>0, <1>6 DEF Same
    <2>2. Aside(a, {}) BY <1>0, <1>01, <1>1, <1>6, <2>1, NoneAside
    <2>3. ~up => LegGoesOn' BY <1>0 DEF LegGoesOn
    <2>. QED BY <1>3, <1>4, <1>6, <2>2, <2>3
  <1>7. CASE x.state # "idle" /\ (\E k \in Rings : ofGw[k] = None) /\ StartModemIncomingInvite(a)
    <2> DEFINE m == CHOOSE k \in Rings : ofGw[k] = None
               t == <<"claim", m>>
    <2>1. m \in Rings /\ ofGw[m] = None /\ Then(a, <<t>>) /\ ofGw' = [ofGw EXCEPT ![m] = gw]
      BY <1>7 DEF StartModemIncomingInvite
    <2>2. ~Prepares(t) /\ \A k \in Lined : t \in Claims(k) => k = m BY DEF Prepares, Claims
    <2>3. ofGw \in [Legs -> Gateways \cup {None}] /\ m \in Lined BY <1>0, <2>1 DEF Typed, TypeOK, Lined
    <2> HIDE DEF t, m
    <2>4. LinesFrame BY <1>0, <2>1, <2>3 DEF LinesFrame
    <2>5. Goes(a, {t}) /\ Stays(a) BY <1>0, <1>1, <2>1, GoesOne, ThenStays
    <2>6. Prepared(a, {t}) /\ ClaimsFrame(a, {t}) BY <2>1, <2>2 DEF Prepared, ClaimsFrame
    <2>7. Aside(a, {t}) BY <1>0, <1>01, <2>4, <2>5, <2>6 DEF Aside
    <2>. QED BY <1>4, <1>7, <2>7
  <1>8. CASE x.state # "idle" \/ ~up
    <2>1. \/ Then(a, <<>>) /\ UNCHANGED ofGw
          \/ /\ x.state # "idle" /\ (\E k \in Rings : ofGw[k] = None)
             /\ StartModemIncomingInvite(a)
      BY <1>8 DEF SyncModemState
    <2>. QED BY <1>6, <1>7, <1>8, <2>1
  <1>. QED BY <1>5, <1>8

\* handleLegEnded hangs up for a leg that the modem did not end.
LEMMA LegEndedMoves ==
  ASSUME IInv, WInv, GInv, NEW a \in Actors, NEW l \in Legs, HandleLegEnded(a, l)
  PROVE  GInv'
  <1>0. /\ Typed /\ SameCall /\ Doing(a, "legEnded", l) /\ UNCHANGED <<opMu, gw, up, ofGw, byModem, races>>
        /\ active' = [g \in Gateways |-> IF active[g] = l THEN None ELSE active[g]]
        /\ invite' = [invite EXCEPT ![l] = IF @ = "armed" THEN "cancelled" ELSE @]
    BY DEF IInv, HandleLegEnded, SameCall, ClosingFrame, workerVars, legVars
  <1>1. todo[a] # <<>> /\ todo[a][1] = <<"legEnded", l>> BY <1>0, StepFacts
  <1>2. invite \in [Legs -> {"none", "armed", "cancelled"}] BY <1>0 DEF Typed, TypeOK
  <1>3. ActiveFrame /\ InviteFrame /\ LinesFrame /\ OpMoves(a)
    BY <1>0, <1>2 DEF ActiveFrame, InviteFrame, LinesFrame, OpMoves
  <1>4. PICK steps \in Seq(PlainOps \X (Legs \cup {None})) :
            /\ Then(a, steps) /\ Len(steps) \in {2, 3}
            /\ \A i \in 1..Len(steps) : steps[i] \in {<<"clearSip", l>>, <<"hangup", None>>, <<"closed", l>>}
            /\ l \notin byModem \cup Dials => \E i \in 1..Len(steps) : steps[i] = <<"hangup", None>>
    BY <1>0, LegEndedSteps
  <1> DEFINE S == PlainOps \X (Legs \cup {None})  X == {t \in S : HadIn(steps, t)}
  <1>5. /\ \A i \in 1..Len(steps) : steps[i] \in X
        /\ \A t \in X : HadIn(steps, t) /\ Plain(t)
    <2>1. \A i \in 1..Len(steps) : steps[i] \in S OBVIOUS
    <2>2. \A t \in S : Plain(t) BY PlainOnes
    <2>. QED BY <2>1, <2>2 DEF HadIn
  <1>6. Full(a, steps) BY <1>0, <1>1, <1>4, ThenFull
  <1> HIDE DEF X, S
  <1>7. Keeps(a) /\ Went(a, steps) BY <1>0, <1>6, FullKeeps DEF Full
  <1>8. Goes(a, X) BY <1>0, <1>5, <1>7, WentGoes
  <1>9. Prepared(a, X) /\ ClaimsFrame(a, X) BY <1>5, PlainFrame
  <1>10. Stays(a) BY <1>0, <1>4, ThenStays
  <1>11. Aside(a, X) BY <1>0, <1>3, <1>8, <1>9, <1>10 DEF Aside
  <1>12. Places /\ Locks /\ ClosingFrame /\ (InCall' => InCall) /\ UNCHANGED <<call, owner>>
    BY <1>0 DEF WInv, SameCall, InCall
  <1>13. \A g \in Gateways : active'[g] # l BY <1>0, LegNames
  <1>14. todo[a][1] # Cfun /\ (\A k : todo[a][1] # <<"close", k>>) BY <1>1 DEF Cfun
  <1>15. RingEnds'
    <2>1. \A k \in Legs : ClosesRing(a, k, todo[a][1]) => k = l BY <1>1 DEF ClosesRing
    <2>2. ~Out(l)' BY <1>13 DEF Out
    <2>3. \A k \in Legs : ClosesRing(a, k, todo[a][1]) => ~Out(k)' BY <2>1, <2>2 DEF Out
    <2>. QED BY <1>0, <1>3, <1>7, <2>3, RingEndsKept DEF GInv
  <1>16. LegGoesOn'
    <2>1. \A k \in Legs : Moving(a, k, todo[a][1]) => k = l BY <1>1 DEF Moving, Prepares
    <2>2. \A k \in Legs : Moving(a, k, todo[a][1]) => k # active'[gw] BY <1>0, <1>13, <2>1, GwKnown
    <2>. QED BY <1>0, <1>3, <1>7, <1>12, <2>2, LegGoesOnKept DEF GInv
  <1>17. PreparesOpen' BY <1>0, <1>11, <1>12, PreparesOpenKept DEF GInv, Aside
  <1>18. ModemEndsFirst' BY <1>0, <1>11, <1>12, <1>14, ModemEndsFirstKept DEF GInv, Aside
  <1>19. OwnerKnown' BY <1>0, <1>7, <1>12, <1>14, OwnerKnownKept DEF GInv
  <1>20. ReleaseComes'
    <2>1. ASSUME InCall', owner \in Legs, todo[a][1] = <<"legEnded", owner>>, owner \notin byModem
          PROVE  Has(<<"hangup", None>>)'
      <3>1. owner = l BY <1>1, <2>1
      <3>2. l \notin byModem \cup Dials BY <1>12, <2>1, <3>1 DEF GInv, OwnerKnown
      <3>3. HadIn(steps, <<"hangup", None>>) BY <1>4, <3>2 DEF HadIn
      <3>4. HadIn(todo'[a], <<"hangup", None>>) BY <1>7, <3>3, HadSteps
      <3>. QED BY <3>4, HadPrime DEF Has
    <2>2. todo[a][1] \notin {<<"hangup", None>>, <<"at", "ATH">>} BY <1>1
    <2>. QED BY <1>0, <1>1, <1>7, <1>12, <1>14, <2>1, <2>2, ReleaseComesMoved DEF GInv
  <1>. QED BY <1>11, <1>15, <1>16, <1>17, <1>18, <1>19, <1>20, AsideFrame DEF GInv

-----------------------------------------------------------------------------
(* The steps of a leg.                                                     *)

\* A step that closes, waits or ends a leg: what it owes to RingEnds, LegGoesOn and the rest.
LEMMA AsideLeg ==
  ASSUME IInv, WInv, GInv, NEW a \in Actors, NEW X, Aside(a, X), Calls(a), NEW h, NEW l,
         todo[a] # <<>>, todo[a][1] = <<h, l>>, h \in {"close", "wait", "endLeg"},
         Out(l)' => Early' \/ \E t : HadIn(todo'[a], t) /\ ClosesRing(a, l, t),
         l = active'[gw] => Early' \/ \E t : HadIn(todo'[a], t) /\ Moving(a, l, t),
         h = "close" /\ l \in byModem /\ l # a /\ Preparing(l) => Early'
  PROVE  GInv'
  <1>0. Typed /\ Places /\ Locks /\ Keeps(a) BY DEF IInv, WInv, Aside, Goes
  <1>01. /\ todo[a][1] # Cfun /\ todo[a][1] # <<"hangup", None>>
         /\ todo[a][1] # <<"at", "ATH">> /\ todo[a][1] # <<"legEnded", owner>>
    BY DEF Cfun
  <1>1. RingEnds'
    <2>1. \A k \in Legs : ClosesRing(a, k, todo[a][1]) => k = l BY DEF ClosesRing
    <2>2. \A k \in Legs : ClosesRing(a, k, todo[a][1]) /\ Out(k)' =>
              Early' \/ \E b \in Actors : \E t : HadIn(todo'[b], t) /\ ClosesRing(b, k, t)
      BY <2>1 DEF Out
    <2>. QED BY <1>0, <2>2, RingEndsKept DEF GInv, Aside
  <1>2. LegGoesOn'
    <2>1. \A k \in Legs : Moving(a, k, todo[a][1]) => k = l \/ (k = a /\ h = "wait")
      BY DEF Moving, Prepares
    <2>2. h = "wait" => l = a
      <3>1. todo[a][1] \in StepsOf(a) BY <1>0, StackFacts
      <3>. QED BY <3>1 DEF StepsOf
    <2>3. \A k \in Legs : k = active'[gw] /\ Moving(a, k, todo[a][1]) => OnTheMove(k)' \/ Early'
      <3>1. ASSUME NEW t, HadIn(todo'[a], t), Moving(a, l, t) PROVE OnTheMove(l)'
        BY <3>1 DEF OnTheMove, Had, HadIn, Moving
      <3>2. l = active'[gw] => OnTheMove(l)' \/ Early' BY <3>1
      <3>. QED BY <2>1, <2>2, <3>2 DEF OnTheMove, Moving
    <2>. QED BY <1>0, <2>3, LegGoesOnKept DEF GInv, Aside, LinesFrame, Calls
  <1>3. PreparesOpen' BY <1>0, PreparesOpenKept DEF GInv, Aside, Calls
  <1>4. ModemEndsFirst'
    <2>1. \A k : todo[a][1] = <<"close", k>> => h = "close" /\ k = l OBVIOUS
    <2>2. \A k \in byModem : todo[a][1] = <<"close", k>> /\ k # a /\ Preparing(k) => Early'
      BY <2>1 DEF Preparing
    <2>. QED BY <1>0, <2>2, ModemEndsFirstKept DEF GInv, Aside
  <1>5. OwnerKnown' BY <1>0, <1>01, OwnerKnownKept DEF GInv, Aside, Calls
  <1>6. ReleaseComes' BY <1>0, <1>01, ReleaseComesKept DEF GInv, Aside, Calls
  <1>. QED BY <1>1, <1>2, <1>3, <1>4, <1>5, <1>6, AsideFrame DEF GInv

\* The line of a leg.
LEMMA LineOf ==
  ASSUME IInv, GInv, NEW g \in Gateways, NEW l \in Legs, active[g] = l
  PROVE  ofGw[l] = g /\ l \in Lined /\ (closing[l] = "done" => Early)
  <1>1. ofGw[l] = g /\ (closing[l] = "done" => Early)
    BY LegNames DEF IInv, Order, ActiveLegIsOpen, Early
  <1>2. g # None BY NamesAssumption
  <1>. QED BY <1>1, <1>2 DEF GInv, LinesKnown

\* The ring is answered, refused or cancelled.
LEMMA WaitMoves ==
  ASSUME IInv, WInv, GInv, NEW a \in Actors, NEW l \in Legs, WaitAnswer(a, l)
  PROVE  GInv'
  <1>0. /\ Typed /\ SameCall /\ Doing(a, "wait", l) /\ UNCHANGED <<opMu, gw, up, active, ofGw, byModem>>
        /\ races \subseteq races'
    BY DEF IInv, WaitAnswer, SameCall, ClosingFrame, workerVars, legVars, Race
  <1>1. todo[a] # <<>> /\ todo[a][1] = <<"wait", l>> /\ l = a /\ l \in Rings \cup Dials
    BY <1>0, StepFacts
  <1>2. OpMoves(a) /\ Calls(a) BY <1>0, SameCalls DEF OpMoves
  <1>3. CASE Then(a, <<<<"close", l>>>>) /\ UNCHANGED <<invite, races>>
    <2> DEFINE t == <<"close", l>>
    <2>1. Plain(t) /\ Then(a, <<t>>) BY <1>3, PlainOnes DEF PlainOps
    <2>2. ClosesRing(a, l, t) /\ Moving(a, l, t) BY DEF ClosesRing, Moving
    <2> HIDE DEF t
    <2>3. Same BY <1>0, <1>3 DEF Same
    <2>4. Aside(a, {t}) BY <1>0, <1>1, <1>2, <2>1, <2>3, OneAside
    <2>5. HadIn(todo'[a], t) BY <2>4 DEF Aside, Goes
    <2>. QED BY <1>1, <1>2, <2>2, <2>4, <2>5, AsideLeg
  <1> DEFINE Heard == /\ IF l \in Rings /\ active[ofGw[l]] = l
                         THEN invite' = [invite EXCEPT ![l] = "none"]
                         ELSE UNCHANGED invite
                      /\ invite[l] = "cancelled" => "early" \in races'
  <1>4. CASE Heard /\ l \in Dials /\ Then(a, <<>>)
    <2>1. l \notin Lined /\ l \notin Rings BY <1>4, LegNames DEF Lined
    <2>2. Same BY <1>0, <1>4, <2>1 DEF Same
    <2>3. Aside(a, {}) BY <1>0, <1>1, <1>2, <1>4, <2>2, NoneAside
    <2>4. \A g \in Gateways : active'[g] # l BY <1>0, <2>1, LineOf
    <2>5. ~Out(l)' /\ active'[gw] # l BY <1>0, <2>4, GwKnown DEF Out
    <2>. QED BY <1>1, <1>2, <2>3, <2>5, AsideLeg
  <1>5. CASE Heard /\ l \in Rings /\ Then(a, <<<<"answer", None>>>>)
    <2> DEFINE t == <<"answer", None>>
    <2>1. Prepares(t) /\ Moving(a, l, t) /\ (\A k \in Lined : t \notin Claims(k)) /\ Then(a, <<t>>)
      BY <1>1, <1>5 DEF Prepares, Moving, Claims
    <2> HIDE DEF t
    <2>2. invite \in [Legs -> {"none", "armed", "cancelled"}] /\ l \in Lined
      BY <1>0, <1>5 DEF Typed, TypeOK, Lined
    <2>3. ~Out(l)'
      <3>1. ASSUME NEW g \in Gateways, active'[g] = l PROVE invite'[l] = "none"
        <4>1. ofGw[l] = g BY <1>0, <3>1, LineOf
        <4>. QED BY <1>0, <1>5, <2>2, <3>1, <4>1
      <3>. QED BY <3>1 DEF Out
    <2>4. invite[l] = "cancelled" => Early' BY <1>5 DEF Early, Unless
    <2>5. Answered(a) BY <1>1, <2>3, <2>4 DEF Answered, Out
    <2>6. InviteFrame BY <1>5, <2>2, <2>4 DEF InviteFrame
    <2>7. ActiveFrame /\ LinesFrame BY <1>0 DEF ActiveFrame, LinesFrame
    <2>8. Prepares(todo[a][1]) BY <1>1 DEF Prepares
    <2>9. Prepared(a, {t}) /\ ClaimsFrame(a, {t})
      BY <1>1, <2>1, <2>2, <2>5, <2>8 DEF Prepared, ClaimsFrame
    <2>10. Goes(a, {t}) /\ Stays(a) BY <1>0, <1>1, <2>1, GoesOne, ThenStays
    <2>11. Aside(a, {t}) BY <1>0, <1>2, <2>6, <2>7, <2>9, <2>10 DEF Aside
    <2>12. HadIn(todo'[a], t) BY <2>10 DEF Goes
    <2>. QED BY <1>1, <1>2, <2>1, <2>3, <2>11, <2>12, AsideLeg
  <1>6. \/ Heard /\ Then(a, IF l \in Rings THEN <<<<"answer", None>>>> ELSE <<>>)
        \/ Then(a, <<<<"close", l>>>>) /\ UNCHANGED <<invite, races>>
    BY DEF WaitAnswer, Race
  <1>. QED BY <1>1, <1>3, <1>4, <1>5, <1>6

LEMMA PreparingStarts ==
  ASSUME Typed, NEW l \in Legs, Preparing(l)
  PROVE  Starting(l)
  <1>1. todo[l] = <<>> => Len(todo[l]) = 0 OBVIOUS
  <1>. QED BY <1>1 DEF Preparing, Had, HadIn, Starting

\* Close leads to handleLegEnded, once.
LEMMA CloseMakes ==
  ASSUME IInv, WInv, GInv, NEW a \in Actors, NEW l \in Legs, Close(a, l)
  PROVE  GInv'
  <1>0. /\ Typed /\ Doing(a, "close", l) /\ UNCHANGED <<opMu, modem, call, owner>> /\ Same
        /\ Places /\ Locks
    BY DEF IInv, WInv, Close, Same, workerVars, gatewayVars, Race
  <1>1. todo[a] # <<>> /\ todo[a][1] = <<"close", l>> BY <1>0, StepFacts
  <1>2. OpMoves(a) /\ UNCHANGED <<up, byModem>> /\ gw' = gw /\ active' = active /\ races \subseteq races'
    BY <1>0 DEF OpMoves, Same
  <1>3. CASE closing[l] = "done" /\ Then(a, <<>>) /\ UNCHANGED <<closing, races>>
    <2>1. Aside(a, {}) BY <1>0, <1>1, <1>2, <1>3, NoneAside
    <2>2. Calls(a) BY <1>0, <1>3, SameCalls DEF SameCall, ClosingFrame
    <2>3. Early => Early' BY <1>3 DEF Early, Unless
    <2>4. Out(l)' \/ l = active'[gw] => Early'
      <3>1. \A g \in Gateways : active'[g] = l => Early' BY <1>2, <1>3, <2>3, LineOf
      <3>. QED BY <1>0, <1>2, <3>1, GwKnown DEF Out
    <2>5. l \in byModem /\ Preparing(l) => Early' BY <1>3, <2>3 DEF GInv, ByModemLined, PreparesOpen
    <2>. QED BY <1>1, <2>1, <2>2, <2>4, <2>5, AsideLeg
  <1>4. CASE /\ closing[l] = "open" /\ closing' = [closing EXCEPT ![l] = "running"]
             /\ Then(a, <<<<"legEnded", l>>>>)
             /\ a # l /\ l \notin Dials /\ Starting(l) => "early" \in races'
    <2> DEFINE t == <<"legEnded", l>>
    <2>1. Plain(t) /\ Then(a, <<t>>) BY <1>4, PlainOnes DEF PlainOps
    <2>2. ClosesRing(a, l, t) /\ Moving(a, l, t) BY DEF ClosesRing, Moving
    <2> HIDE DEF t
    <2>3. Aside(a, {t}) BY <1>0, <1>1, <1>2, <2>1, OneAside
    <2>4. HadIn(todo'[a], t) /\ Keeps(a) BY <2>3 DEF Aside, Goes
    <2>5. closing \in [Legs -> {"open", "running", "done"}] BY <1>0 DEF Typed, TypeOK
    <2>6. l \in Lined /\ Preparing(l) => Early'
      <3> SUFFICES ASSUME l \in Lined, Preparing(l) PROVE Early' OBVIOUS
      <3>1. Starting(l) /\ l \notin Dials /\ l \in Actors BY <1>0, PreparingStarts, LegNames
      <3>2. a # l
        <4>1. PICK u : Had(l, u) /\ Prepares(u) BY DEF Preparing
        <4>2. u = todo[l][1] BY <1>0, <3>1, <4>1, PreparesFirst, PreparesHead
        <4>3. ~Prepares(<<"close", l>>) BY DEF Prepares
        <4>. QED BY <1>1, <4>1, <4>2, <4>3
      <3>. QED BY <1>4, <3>1, <3>2 DEF Early, Unless
    <2>7. /\ todo[a][1] # Cfun /\ todo[a][1] # <<"hangup", None>>
          /\ todo[a][1] # <<"at", "ATH">> /\ todo[a][1] # <<"legEnded", owner>>
      BY <1>1 DEF Cfun
    <2>8. InCall' => InCall BY <1>0 DEF InCall
    <2>9. RingEnds'
      <3>1. \A k \in Legs : ClosesRing(a, k, todo[a][1]) => ClosesRing(a, k, t)
        BY <1>1, <2>2 DEF ClosesRing
      <3>. QED BY <1>0, <1>2, <2>3, <2>4, <3>1, RingEndsKept DEF GInv, Aside
    <2>10. LegGoesOn'
      <3>1. \A k \in Legs : Moving(a, k, todo[a][1]) => k = l BY <1>1 DEF Moving, Prepares
      <3>2. OnTheMove(l)' BY <2>2, <2>4 DEF OnTheMove, Had, HadIn, Moving
      <3>3. \A k \in Legs : Moving(a, k, todo[a][1]) => OnTheMove(k)' BY <3>1, <3>2 DEF OnTheMove, Moving
      <3>. QED BY <1>0, <1>2, <2>3, <2>4, <3>3, LegGoesOnKept DEF GInv, Aside
    <2>11. PreparesOpen'
      <3> SUFFICES ASSUME NEW k \in Lined, Preparing(k)' PROVE closing'[k] = "open" \/ Early'
        BY DEF PreparesOpen, Preparing, Prepares
      <3>1. Preparing(k) BY <1>0, <2>3, StillPreparing DEF Aside
      <3>2. CASE k = l BY <2>6, <3>1, <3>2
      <3>3. CASE k # l
        <4>1. closing'[k] = closing[k] BY <1>4, <2>5, <3>3, LegNames
        <4>. QED BY <1>2, <3>1, <4>1, RacesKept DEF GInv, PreparesOpen
      <3>. QED BY <3>2, <3>3
    <2>12. ModemEndsFirst'
      <3>1. \A k : todo[a][1] = <<"close", k>> => k = l BY <1>1
      <3>2. \A k \in byModem : todo[a][1] = <<"close", k>> /\ k # a /\ Preparing(k) => Early'
        BY <2>6, <3>1 DEF GInv, ByModemLined
      <3>. QED BY <1>0, <2>3, <3>2, ModemEndsFirstKept DEF GInv, Aside
    <2>13. OwnerKnown' BY <1>0, <1>2, <2>4, <2>7, <2>8, OwnerKnownKept DEF GInv
    <2>14. ReleaseComes'
      <3> SUFFICES ASSUME InCall', owner \in Legs, closing'[owner] # "open", ~EarlyOrTimeout', ~Rebooting'
                   PROVE  \/ Has(<<"hangup", None>>)' \/ Has(<<"at", "ATH">>)'
                          \/ \E k : k = owner /\ Has(<<"legEnded", k>>)' /\ owner \notin byModem
        BY <1>0, <1>2 DEF ReleaseComes, Has, Had, HadIn
      <3>1. ~EarlyOrTimeout /\ ~Rebooting BY <1>2, <2>4, <2>7, RebootingKept, EarlyOrTimeoutKept
      <3>2. PICK k : k = owner OBVIOUS
      <3>3. CASE owner = l
        <4>1. owner \notin byModem BY <2>8, <3>1 DEF GInv, OwnerKnown
        <4>2. Has(t)' BY <2>4, HadPrime DEF Has
        <4>. QED BY <3>3, <4>1, <4>2 DEF t
      <3>4. CASE owner # l
        <4>1. InCall /\ closing[owner] # "open" BY <1>4, <2>5, <2>8, <3>4
        <4>2. Has(<<"hangup", None>>) => Has(<<"hangup", None>>)' BY <2>4, <2>7, HasKept
        <4>3. Has(<<"at", "ATH">>) => Has(<<"at", "ATH">>)' BY <2>4, <2>7, HasKept
        <4>4. Has(<<"legEnded", k>>) => Has(<<"legEnded", k>>)' BY <2>4, <2>7, <3>2, HasKept
        <4>. QED BY <3>1, <3>2, <4>1, <4>2, <4>3, <4>4 DEF GInv, ReleaseComes
      <3>. QED BY <3>3, <3>4
    <2>. QED BY <2>3, <2>9, <2>10, <2>11, <2>12, <2>13, <2>14, AsideFrame DEF GInv
  <1>5. \/ closing[l] = "done" /\ Then(a, <<>>) /\ UNCHANGED <<closing, races>>
        \/ /\ closing[l] = "open" /\ closing' = [closing EXCEPT ![l] = "running"]
           /\ Then(a, <<<<"legEnded", l>>>>)
           /\ a # l /\ l \notin Dials /\ Starting(l) => "early" \in races'
    BY DEF Close, Race
  <1>. QED BY <1>3, <1>4, <1>5

\* What the modem's end of a leg leaves to show.
LEMMA EndMoves ==
  ASSUME IInv, WInv, GInv, NEW a \in Actors, NEW l \in Legs, Doing(a, "endLeg", l), active[ofGw[l]] = l,
         byModem' = byModem \cup {l}, UNCHANGED <<modem, call, opMu, gw, up, active, ofGw, closing, owner, races>>,
         InviteFrame, NEW X, Goes(a, X), Stays(a), \A t \in X : Plain(t),
         Preparing(l) /\ Preparing(l)' => Told(l)',
         l = active[gw] => OnTheMove(l)' \/ Early'
  PROVE  GInv'
  <1>0. Typed /\ Places /\ Locks BY DEF IInv, WInv
  <1>1. todo[a] # <<>> /\ todo[a][1] = <<"endLeg", l>> /\ 1 \in 1..Len(todo[a]) BY <1>0, StepFacts
  <1>2. ofGw[l] \in Gateways /\ l \in Lined
    <2>1. <<"endLeg", l>> = todo[a][1] BY <1>1
    <2>2. ofGw[l] # None BY <1>1 DEF IInv, Order, CloseOnce
    <2>3. ofGw \in [Legs -> Gateways \cup {None}] BY <1>0 DEF Typed, TypeOK
    <2>. QED BY <2>2, <2>3 DEF GInv, LinesKnown
  <1>3. ActiveFrame /\ LinesFrame /\ ClosingFrame /\ OpMoves(a) /\ races \subseteq races' /\ Keeps(a)
    BY DEF ActiveFrame, LinesFrame, ClosingFrame, OpMoves, Goes
  <1>4. Prepared(a, X) /\ ClaimsFrame(a, X) BY PlainFrame
  <1>5. /\ todo[a][1] # Cfun /\ \A k : todo[a][1] # <<"close", k>> BY <1>1 DEF Cfun
  <1>6. LinesKnown' /\ RingsArmed' /\ ByModemLined'
    BY <1>0, <1>2, <1>3, LinesKnownKept DEF GInv, InviteFrame, RingsArmed, ByModemLined
  <1>7. Unclaimed'
    <2>1. \A k \in Lined : k \in byModem' => k \in byModem \/ \E g \in Gateways : active[g] = k
      BY <1>2
    <2>. QED BY <1>0, <1>3, <1>4, <2>1, UnclaimedKept DEF GInv, ClaimsFrame
  <1>8. RingWaits' BY <1>0, <1>3, <1>4, RingWaitsKept DEF GInv
  <1>9. RingEnds'
    <2>1. \A k : ~ClosesRing(a, k, todo[a][1]) BY <1>1 DEF ClosesRing
    <2>. QED BY <1>3, <2>1, RingEndsKept DEF GInv
  <1>10. LegGoesOn'
    <2>1. \A k \in Legs : Moving(a, k, todo[a][1]) => k = l BY <1>1 DEF Moving, Prepares
    <2>2. \A k \in Legs : k = active[gw] /\ Moving(a, k, todo[a][1]) => OnTheMove(k)' \/ Early'
      BY <2>1 DEF OnTheMove, Moving
    <2>. QED BY <1>0, <1>3, <2>2, LegGoesOnKept DEF GInv
  <1>11. PreparesOpen' BY <1>0, <1>3, <1>4, PreparesOpenKept DEF GInv
  <1>12. DialsOut' BY <1>0, <1>4, DialsOutKept DEF GInv
  <1>13. ModemEndsFirst'
    <2> SUFFICES ASSUME NEW k \in byModem', Preparing(k)' PROVE Told(k)'
      BY DEF ModemEndsFirst, Preparing, Told, Prepares
    <2>1. k \in Lined /\ k \in Legs /\ k \in Actors BY <1>6, LegNames DEF ByModemLined
    <2>2. Preparing(k) /\ (k = a => FALSE)
      <3>1. Preparing(k) BY <1>0, <1>4, <2>1, StillPreparing
      <3>2. PICK u : Had(k, u) /\ Prepares(u) BY <3>1 DEF Preparing
      <3>3. u = todo[k][1] BY <1>0, <2>1, <3>2, PreparesFirst, PreparesHead
      <3>4. ~Prepares(<<"endLeg", l>>) BY DEF Prepares
      <3>. QED BY <1>1, <3>1, <3>2, <3>3, <3>4
    <2>3. CASE k = l BY <2>2, <2>3 DEF Told, Preparing
    <2>4. CASE k # l
      <3>1. Told(k) BY <2>2, <2>4 DEF GInv, ModemEndsFirst
      <3>. QED BY <1>0, <1>3, <1>5, <2>1, <2>2, <3>1, ToldKept DEF InviteFrame
    <2>. QED BY <2>3, <2>4
  <1>14. InCall' => EarlyOrTimeout' \/ Rebooting'
    <2>1. Ending(todo[a][1]) BY <1>1 DEF Ending
    <2>2. Ended BY <1>1, <2>1 DEF WInv, Endings
    <2>3. Timeout => EarlyOrTimeout BY DEF Timeout, EarlyOrTimeout, Unless
    <2>4. InCall' <=> InCall BY DEF InCall
    <2>. QED BY <1>3, <1>5, <2>2, <2>3, <2>4, RebootingKept, EarlyOrTimeoutKept DEF Ended
  <1>15. OwnerKnown'
    <2>1. InCall' => InCall BY DEF InCall
    <2>. QED BY <1>14, <2>1 DEF OwnerKnown, GInv
  <1>16. ReleaseComes' BY <1>14 DEF ReleaseComes
  <1>. QED BY <1>6, <1>7, <1>8, <1>9, <1>10, <1>11, <1>12, <1>13, <1>15, <1>16 DEF GInv

\* endLegFromModem marks the leg and closes or cancels it.
LEMMA EndLegMoves ==
  ASSUME IInv, WInv, GInv, NEW a \in Actors, NEW l \in Legs, EndLegFromModem(a, l)
  PROVE  GInv'
  <1>0. /\ Typed /\ Doing(a, "endLeg", l) /\ Places /\ Locks
        /\ UNCHANGED <<modem, call, opMu, gw, up, active, ofGw, closing, owner, races>>
    BY DEF IInv, WInv, EndLegFromModem, workerVars
  <1>1. todo[a] # <<>> /\ todo[a][1] = <<"endLeg", l>> /\ 1 \in 1..Len(todo[a]) BY <1>0, StepFacts
  <1>2. OpMoves(a) BY <1>0 DEF OpMoves
  <1>3. CASE active[ofGw[l]] # l
    <2> DEFINE t == <<"endSession", None>>
    <2>1. Plain(t) /\ Then(a, <<t>>) BY <1>3, PlainOnes DEF PlainOps, EndLegFromModem
    <2> HIDE DEF t
    <2>2. Same /\ SameCall BY <1>0, <1>3 DEF EndLegFromModem, Same, SameCall, ClosingFrame
    <2>3. Aside(a, {t}) BY <1>0, <1>1, <1>2, <2>1, <2>2, OneAside
    <2>4. \A g \in Gateways : active'[g] # l BY <1>0, <1>3, LineOf
    <2>5. ~Out(l)' /\ l # active'[gw] BY <1>0, <2>4, GwKnown DEF Out
    <2>. QED BY <1>1, <2>2, <2>3, <2>5, SameCalls, AsideLeg
  <1>4. CASE active[ofGw[l]] = l /\ invite[l] # "none"
    <2>1. Then(a, <<>>) /\ invite' = [invite EXCEPT ![l] = "cancelled"] /\ byModem' = byModem \cup {l}
      BY <1>4 DEF EndLegFromModem
    <2>2. invite \in [Legs -> {"none", "armed", "cancelled"}] BY <1>0 DEF Typed, TypeOK
    <2>3. InviteFrame BY <1>4, <2>1, <2>2 DEF InviteFrame
    <2>4. Goes(a, {}) /\ Stays(a) /\ Keeps(a) BY <1>0, <1>1, <2>1, GoesNone, ThenStays DEF Goes
    <2>5. ofGw[l] \in Gateways
      <3>2. ofGw[l] # None BY <1>1 DEF IInv, Order, CloseOnce
      <3>3. ofGw \in [Legs -> Gateways \cup {None}] BY <1>0 DEF Typed, TypeOK
      <3>. QED BY <3>2, <3>3
    <2>6. Out(l) BY <1>4, <2>5 DEF Out
    <2>7. Preparing(l) => Told(l)'
      <3> SUFFICES ASSUME Preparing(l) PROVE Told(l)' OBVIOUS
      <3>1. Had(l, <<"wait", l>>) BY <2>6 DEF GInv, RingWaits
      <3>2. l \in Actors /\ First(<<"wait", l>>) BY LegNames DEF First
      <3>3. l # a BY <1>0, <1>1, <3>1, <3>2, PreparesHead
      <3>4. HadIn(todo'[l], <<"wait", l>>) BY <2>4, <3>1, <3>2, <3>3 DEF Stays, Had
      <3>5. invite'[l] = "cancelled" BY <2>1, <2>2
      <3>. QED BY <3>4, <3>5, HadPrime DEF Told
    <2>8. OnTheMove(l)' \/ Early'
      <3>1. CASE Early BY <1>0, <3>1 DEF Early, Unless
      <3>2. ASSUME NEW b \in Actors, NEW t, Had(b, t), ClosesRing(b, l, t) PROVE OnTheMove(l)'
        <4>1. t[1] \notin {"respond", "closeSession", "endLeg"} /\ Moving(b, l, t)
          BY <3>2 DEF ClosesRing, Moving, Prepares
        <4>2. HadIn(todo'[b], t) BY <1>1, <2>4, <3>2, <4>1 DEF Keeps
        <4>. QED BY <4>1, <4>2 DEF OnTheMove, Had, HadIn, Moving
      <3>. QED BY <2>6, <3>1, <3>2 DEF GInv, RingEnds
    <2>. QED BY <1>0, <1>4, <2>1, <2>3, <2>4, <2>7, <2>8, EndMoves
  <1>5. CASE active[ofGw[l]] = l /\ invite[l] = "none"
    <2> DEFINE t == <<"close", l>>
    <2>1. Then(a, <<t>>) /\ UNCHANGED invite /\ byModem' = byModem \cup {l}
      BY <1>5 DEF EndLegFromModem
    <2>2. Plain(t) /\ Moving(a, l, t) BY PlainOnes DEF PlainOps, Moving
    <2>3. Doing(a, "close", l)'
      <3>1. todo = [b \in Actors |-> todo[b]] /\ todo[a] \in Seq(StepsOf(a)) /\ t \in StepsOf(a)
        BY <1>0 DEF Typed, Shape, StepsOf
      <3> HIDE DEF t
      <3>2. todo'[a] = <<t>> \o Tail(todo[a]) BY <2>1, <3>1 DEF Then
      <3>3. Tail(todo[a]) \in Seq(StepsOf(a)) BY <1>1, <3>1
      <3>4. <<t>> \o Tail(todo[a]) # <<>> /\ Head(<<t>> \o Tail(todo[a])) = t BY <3>1, <3>3
      <3>. QED BY <3>2, <3>4 DEF Doing, t
    <2> HIDE DEF t
    <2>4. Goes(a, {t}) /\ Stays(a) /\ Keeps(a) BY <1>0, <1>1, <2>1, GoesOne, ThenStays DEF Goes
    <2>5. HadIn(todo'[a], t) BY <2>4 DEF Goes
    <2>6. OnTheMove(l)' BY <2>2, <2>5 DEF OnTheMove, Had, HadIn, Moving
    <2>7. Preparing(l) => Told(l)'
      <3> SUFFICES ASSUME Preparing(l) PROVE Told(l)' OBVIOUS
      <3>1. l \in Actors BY LegNames
      <3>2. a # l
        <4>1. PICK u : Had(l, u) /\ Prepares(u) BY DEF Preparing
        <4>2. u = todo[l][1] BY <1>0, <3>1, <4>1, PreparesFirst, PreparesHead
        <4>3. ~Prepares(<<"endLeg", l>>) BY DEF Prepares
        <4>. QED BY <1>1, <4>1, <4>2, <4>3
      <3>3. Changing(todo[a][1]) /\ ~Locking(todo[a][1]) /\ todo[a][1] # Cfun
        BY <1>1 DEF Changing, Locking, Command, UnlockStep, Cfun
      <3>4. Origin(a) BY <1>1, <3>3 DEF WInv, Origins
      <3>5. Origin(a)' BY <1>0, <1>1, <1>2, <2>4, <3>3, <3>4, OriginKept
      <3>. QED BY <2>3, <3>2, <3>5 DEF Told
    <2>8. InviteFrame BY <2>1 DEF InviteFrame
    <2>. QED BY <1>0, <1>5, <2>1, <2>2, <2>4, <2>6, <2>7, <2>8, EndMoves
  <1>. QED BY <1>3, <1>4, <1>5

\* A leg takes its line.
Takes(a, l, g, X) ==
  /\ Goes(a, X)
  /\ ofGw[l] = g /\ active[g] = None /\ active' = [active EXCEPT ![g] = l]
  /\ \A b \in Actors : b \notin {a, l} => todo'[b] = todo[b]
  /\ \A t \in X : t[1] \notin {"claim", "claimLine"} /\ (Prepares(t) => a = l)
  /\ \A k \in Legs : k # l => invite'[k] = invite[k]
  /\ invite'[l] # "none" => l \in Rings /\ HadIn(todo'[l], <<"wait", l>>)
  /\ \E t : HadIn(todo'[l], t) /\ Prepares(t)
  /\ UNCHANGED <<modem, call, opMu, gw, up, ofGw, closing, byModem, owner, races>>

\* The claim of the line, where it is free, keeps GInv.
LEMMA LineTaken ==
  ASSUME IInv, WInv, GInv, NEW a \in Actors, NEW l \in Lined, Doing(a, "claimLine", l),
         NEW g \in Gateways, NEW X, Takes(a, l, g, X)
  PROVE  GInv'
  <1> USE DEF Takes
  <1>0. Typed /\ Places /\ Locks /\ Keeps(a) BY DEF IInv, WInv, Goes
  <1>1. todo[a] # <<>> /\ todo[a][1] = <<"claimLine", l>> /\ 1 \in 1..Len(todo[a]) BY <1>0, StepFacts
  <1>2. l \in Legs /\ l \in Actors /\ l # None /\ g # None BY LegNames, NamesAssumption
  <1>3. \A h \in Gateways : active'[h] = IF h = g THEN l ELSE active[h]
    BY <1>0 DEF Typed, Shape
  <1>4. Had(a, <<"claimLine", l>>) /\ <<"claimLine", l>> \in Claims(l)
    BY <1>1 DEF Had, HadIn, Claims
  <1>5. l \notin byModem /\ \A h \in Gateways : active[h] # l BY <1>4 DEF GInv, Unclaimed
  <1>6. closing[l] = "open" \/ Early BY <1>1, <1>2 DEF IInv, Order, CloseOnce
  <1>7. OpMoves(a) /\ ClosingFrame /\ races \subseteq races' /\ (InCall' => InCall) /\ LinesFrame
    BY DEF OpMoves, ClosingFrame, InCall, LinesFrame
  <1>8. \A k \in Legs : /\ ~ClosesRing(a, k, todo[a][1]) /\ ~Moving(a, k, todo[a][1])
                        /\ todo[a][1] # <<"close", k>>
    BY <1>1 DEF ClosesRing, Moving, Prepares
  <1>9. /\ todo[a][1] # Cfun /\ todo[a][1] # <<"hangup", None>>
        /\ todo[a][1] # <<"at", "ATH">> /\ todo[a][1] # <<"legEnded", owner>>
    BY <1>1 DEF Cfun
  \* The other legs prepare what they prepared.
  <1>10. ASSUME NEW k \in Legs, k # l, NEW t, HadIn(todo'[k], t), Prepares(t)
         PROVE  k # a /\ Had(k, t)
    <2>1. k \in Actors BY LegNames
    <2>2. CASE k = a
      <3>1. t \in X BY <1>0, <1>10, <2>1, <2>2, NewPrepares
      <3>. QED BY <1>10, <2>2, <3>1
    <2>3. CASE k # a BY <1>10, <2>1, <2>3 DEF Had
    <2>. QED BY <2>2, <2>3
  <1>11. ASSUME NEW k \in Legs, k # l, Preparing(k)' PROVE k # a /\ Preparing(k)
    <2>1. PICK t : HadIn(todo'[k], t) /\ Prepares(t) BY <1>11, HadPrime
    <2>. QED BY <1>10, <1>11, <2>1 DEF Preparing
  <1>12. ASSUME NEW k \in Legs, k # l, Out(k)' PROVE Out(k) BY <1>2, <1>3, <1>12 DEF Out
  <1>13. LinesKnown' BY <1>0, <1>7, LinesKnownKept DEF GInv
  <1>14. RingsArmed' BY DEF GInv, RingsArmed
  <1>15. ByModemLined' BY DEF GInv, ByModemLined
  <1>16. Unclaimed'
    <2> SUFFICES ASSUME NEW k \in Lined,
                        ofGw'[k] = None \/ \E b \in Actors, t \in Claims(k) : HadIn(todo'[b], t)
                 PROVE  k \notin byModem' /\ \A h \in Gateways : active'[h] # k
      BY HadPrime DEF Unclaimed, Claims
    <2>1. ASSUME NEW b \in Actors, NEW t \in Claims(k), HadIn(todo'[b], t)
          PROVE  Had(b, t) /\ k # l
      <3>1. t[1] # "wait" /\ t \notin X /\ t \in Begins(k) BY DEF Claims, Begins
      <3>2. Had(b, t) /\ (b = a => \E j \in 1..Len(todo[a]) : j > 1 /\ todo[a][j] = t)
        BY <1>0, <2>1, <3>1, GoesBack
      <3>3. ASSUME k = l PROVE FALSE
        <4>1. PICK i \in 1..Len(todo[b]) : todo[b][i] = t BY <3>2 DEF Had, HadIn
        <4>2. <<"claimLine", l>> \in Begins(l) BY DEF Begins
        <4>3. a = b BY <1>1, <3>1, <3>3, <4>1, <4>2 DEF IInv, Order, ClaimsFirst
        <4>4. \A j \in 1..Len(todo[a]) : todo[a][j] = t => j = 1
          BY <3>1, <3>3 DEF IInv, Order, ClaimsFirst
        <4>. QED BY <3>2, <4>3, <4>4
      <3>. QED BY <3>2, <3>3
    <2>2. k # l /\ (ofGw[k] = None \/ \E b \in Actors, t \in Claims(k) : Had(b, t))
      BY <1>2, <2>1
    <2>3. k \notin byModem /\ \A h \in Gateways : active[h] # k BY <2>2 DEF GInv, Unclaimed
    <2>. QED BY <1>3, <2>2, <2>3
  <1>17. RingWaits'
    <2> SUFFICES ASSUME NEW k \in Legs, Out(k)', Preparing(k)' PROVE HadIn(todo'[k], <<"wait", k>>)
      BY HadPrime DEF RingWaits
    <2>1. CASE k = l BY <2>1 DEF Out
    <2>2. CASE k # l
      <3>1. Out(k) /\ Preparing(k) /\ k # a /\ k \in Actors BY <1>11, <1>12, <2>2, LegNames
      <3>2. Had(k, <<"wait", k>>) BY <3>1 DEF GInv, RingWaits
      <3>. QED BY <2>2, <3>1, <3>2 DEF Had
    <2>. QED BY <2>1, <2>2
  <1>18. RingEnds'
    <2> SUFFICES ASSUME NEW k \in Legs, Out(k)', ~Early'
                 PROVE  \E b \in Actors : \E t : HadIn(todo'[b], t) /\ ClosesRing(b, k, t)
      BY HadPrime DEF RingEnds, ClosesRing
    <2>1. CASE k = l
      <3>1. HadIn(todo'[l], <<"wait", l>>) /\ ClosesRing(l, l, <<"wait", l>>)
        BY <2>1 DEF Out, ClosesRing
      <3>. QED BY <1>2, <2>1, <3>1
    <2>2. CASE k # l
      <3>1. Out(k) /\ ~Early BY <1>7, <1>12, <2>2, RacesKept
      <3>2a. PICK b \in Actors : \E t : Had(b, t) /\ ClosesRing(b, k, t) BY <3>1 DEF GInv, RingEnds
      <3>2. PICK t : Had(b, t) /\ ClosesRing(b, k, t) BY <3>2a
      <3>3. t[1] \notin {"respond", "closeSession", "claimLine"} BY <3>2 DEF ClosesRing
      <3>4. HadIn(todo'[b], t) BY <1>0, <1>1, <3>2, <3>3 DEF Keeps
      <3>. QED BY <3>2, <3>4
    <2>. QED BY <2>1, <2>2
  <1>19. LegGoesOn'
    <2> SUFFICES ASSUME up', active'[gw] # None, call'.state = "idle"
                 PROVE  Early' \/ \E k : k = active'[gw] /\ OnTheMove(k)'
      BY DEF LegGoesOn, OnTheMove, Moving
    <2>1. gw \in Gateways BY <1>0, GwKnown
    <2>2. CASE gw = g
      <3>1. PICK t : HadIn(todo'[l], t) /\ Prepares(t) OBVIOUS
      <3>2. Moving(l, l, t) BY <3>1 DEF Moving
      <3>3. OnTheMove(l)' BY <1>2, <3>1, <3>2 DEF OnTheMove, Had, HadIn, Moving
      <3>. QED BY <1>3, <2>1, <2>2, <3>3
    <2>3. CASE gw # g
      <3>1. active'[gw] = active[gw] BY <1>3, <2>1, <2>3
      <3>2. PICK k : k = active[gw] OBVIOUS
      <3>3. k \in Legs BY <1>0, <2>1, <3>1, <3>2 DEF Typed, TypeOK
      <3>4. Early \/ OnTheMove(k) BY <3>1, <3>2 DEF GInv, LegGoesOn
      <3>5. OnTheMove(k) => OnTheMove(k)' \/ Early' BY <1>0, <1>8, <3>3, MovesKept
      <3>. QED BY <1>7, <3>1, <3>2, <3>4, <3>5, RacesKept
    <2>. QED BY <2>2, <2>3
  <1>20. PreparesOpen'
    <2> SUFFICES ASSUME NEW k \in Lined, Preparing(k)' PROVE closing'[k] = "open" \/ Early'
      BY DEF PreparesOpen, Preparing, Prepares
    <2>1. CASE k = l BY <1>6, <1>7, <2>1, RacesKept
    <2>2. CASE k # l
      <3>1. Preparing(k) BY <1>11, <2>2, LegNames
      <3>. QED BY <1>7, <3>1, RacesKept DEF GInv, PreparesOpen
    <2>. QED BY <2>1, <2>2
  <1>21. DialsOut'
    <2> SUFFICES ASSUME NEW d \in Dials, NEW t, HadIn(todo'[d], t), Prepares(t) PROVE t[1] = "wait"
      BY HadPrime DEF DialsOut
    <2>1. d \in Legs /\ d # l BY LegNames
    <2>2. Had(d, t) BY <1>10, <2>1
    <2>. QED BY <2>2 DEF GInv, DialsOut
  <1>22. ModemEndsFirst'
    <2> SUFFICES ASSUME NEW k \in byModem, Preparing(k)' PROVE Told(k)'
      BY DEF ModemEndsFirst, Preparing, Told, Prepares
    <2>1. k # l /\ k \in Legs BY <1>5, LegNames DEF GInv, ByModemLined
    <2>2. k # a /\ Preparing(k) BY <1>11, <2>1
    <2>3. Told(k) BY <2>2 DEF GInv, ModemEndsFirst
    <2>. QED BY <1>0, <1>7, <1>8, <2>1, <2>2, <2>3, ToldKept
  <1>23. OwnerKnown' BY <1>0, <1>7, <1>9, OwnerKnownKept DEF GInv
  <1>24. ReleaseComes' BY <1>0, <1>7, <1>9, ReleaseComesKept DEF GInv
  <1>. QED BY <1>13, <1>14, <1>15, <1>16, <1>17, <1>18, <1>19, <1>20, <1>21, <1>22, <1>23, <1>24 DEF GInv

\* The claim of the line, or its refusal.
LEMMA ClaimLineMoves ==
  ASSUME IInv, WInv, GInv, NEW a \in Actors, NEW l \in Legs, ClaimLine(a, l)
  PROVE  GInv'
  <1>0. Typed BY DEF IInv
  <1>1. Doing(a, "claimLine", l) /\ UNCHANGED <<modem, call, opMu, gw, up, ofGw, closing, byModem, owner>>
        /\ races \subseteq races'
    BY DEF ClaimLine, Race, workerVars, legVars
  <1>2. /\ todo[a] # <<>> /\ todo[a][1] = <<"claimLine", l>> /\ 1 \in 1..Len(todo[a])
        /\ l \in Rings \/ (l = a /\ l \in Invites)
    BY <1>0, <1>1, StepFacts
  <1>3. l \in Lined /\ ofGw[l] \in Gateways
    <2>1. l \in Lined BY <1>2 DEF Lined
    <2>2. <<"claimLine", l>> \in Begins(l) BY DEF Begins
    <2>3. ofGw[l] # None BY <1>2, <2>1, <2>2 DEF IInv, Order, ClaimsFirst
    <2>4. ofGw \in [Legs -> Gateways \cup {None}] BY <1>0 DEF Typed, TypeOK
    <2>. QED BY <2>1, <2>3, <2>4
  <1>4. CASE /\ Then(a, (IF l \in Rings THEN <<<<"clearSip", l>>>> ELSE <<>>) \o <<<<"close", l>>>>)
             /\ UNCHANGED <<active, invite>>
    <2> DEFINE r == <<"clearSip", l>>  c == <<"close", l>>
    <2>1. Plain(r) /\ Plain(c) BY PlainOnes DEF PlainOps
    <2>2. Then(a, <<r>> \o <<c>>) \/ Then(a, <<>> \o <<c>>) BY <1>4
    <2> HIDE DEF r, c
    <2> DEFINE two == <<r>> \o <<c>>  one == <<>> \o <<c>>
    <2>3. two \in Seq({r, c}) /\ one \in Seq({r, c}) OBVIOUS
    <2> HIDE DEF two, one
    <2>4. PICK s \in Seq({r, c}) : Then(a, s) BY <2>2, <2>3 DEF two, one
    <2> DEFINE X == {t \in {r, c} : HadIn(s, t)}
    <2>5. (\A i \in 1..Len(s) : s[i] \in X) /\ \A t \in X : HadIn(s, t) /\ Plain(t)
      <3>1. \A i \in 1..Len(s) : s[i] \in {r, c} OBVIOUS
      <3>. QED BY <2>1, <3>1 DEF HadIn
    <2> HIDE DEF X
    <2>6. Full(a, s) BY <1>0, <1>2, <2>4, ThenFull
    <2>7. Keeps(a) /\ Went(a, s) BY <1>0, <2>6, FullKeeps DEF Full
    <2>8. Goes(a, X) /\ Stays(a) BY <1>0, <2>4, <2>5, <2>7, WentGoes, ThenStays
    <2>9. Prepared(a, X) /\ ClaimsFrame(a, X) BY <2>5, PlainFrame
    <2>10. Same /\ SameCall /\ OpMoves(a) BY <1>1, <1>4 DEF Same, SameCall, ClosingFrame, OpMoves
    <2>11. Aside(a, X) /\ Calls(a) BY <2>8, <2>9, <2>10, SameFrame, SameCalls DEF Aside
    <2>12. todo[a][1][1] \in Harmless BY <1>2 DEF Harmless
    <2>. QED BY <2>11, <2>12, AsideKept
  <1> DEFINE g == ofGw[l]
             Taken == active[g] = None /\ active' = [active EXCEPT ![g] = l] /\ UNCHANGED races
  <1>5. CASE Taken /\ l \in Rings /\ invite' = [invite EXCEPT ![l] = "armed"] /\ GoRing(a, l)
    <2>1. /\ Full(a, <<>>) /\ Keeps(a) /\ a # l /\ todo[l] = <<>>
          /\ todo'[l] = <<<<"wait", l>>>> /\ l \in Actors
          /\ \A b \in Actors : b \notin {a, l} => todo'[b] = todo[b]
      BY <1>1, <1>5, RingGoes
    <2> DEFINE none == <<>>
    <2>2. Full(a, none) /\ \A i \in 1..Len(none) : FALSE BY <2>1
    <2> HIDE DEF none
    <2>3. Goes(a, {}) BY <1>0, <2>1, <2>2, WentGoes DEF Full
    <2>4. HadIn(todo'[l], <<"wait", l>>) /\ Prepares(<<"wait", l>>)
      <3>1. Len(todo'[l]) = 1 /\ todo'[l][1] = <<"wait", l>> BY <2>1
      <3>. QED BY <3>1, Ranges DEF HadIn, Prepares
    <2>5. invite \in [Legs -> {"none", "armed", "cancelled"}] BY <1>0 DEF Typed, TypeOK
    <2>6. \A k \in Legs : k # l => invite'[k] = invite[k] BY <1>5, <2>5
    <2>7. UNCHANGED <<modem, call, opMu, gw, up, ofGw, closing, byModem, owner, races>> BY <1>1, <1>5
    <2>8. active[g] = None /\ active' = [active EXCEPT ![g] = l] BY <1>5
    <2>9. g \in Gateways /\ ofGw[l] = g BY <1>3
    <2> HIDE DEF g, Taken
    <2>10. \E t : HadIn(todo'[l], t) /\ Prepares(t) BY <2>4
    <2>11. Takes(a, l, g, {}) BY <1>5, <2>1, <2>3, <2>4, <2>6, <2>7, <2>8, <2>9, <2>10 DEF Takes
    <2>. QED BY <1>1, <1>3, <2>9, <2>11, LineTaken
  <1>6. CASE Taken /\ l \notin Rings /\ Then(a, <<<<"dial", None>>, <<"respond", l>>>>) /\ UNCHANGED invite
    <2> DEFINE d == <<"dial", None>>  r == <<"respond", l>>
    <2>1. Prepares(d) /\ ~Prepares(r) /\ d[1] = "dial" /\ r[1] = "respond" BY DEF Prepares
    <2> DEFINE two == <<d, r>>
    <2>2. Then(a, two) BY <1>6
    <2> HIDE DEF d, r
    <2>3. two \in Seq({d, r}) /\ Len(two) = 2 /\ two[1] = d /\ two[2] = r OBVIOUS
    <2> HIDE DEF two
    <2>4. (\A i \in 1..Len(two) : two[i] \in {d, r}) /\ HadIn(two, d) /\ HadIn(two, r)
      BY <2>3, Ranges DEF HadIn
    <2>5. Full(a, two) BY <1>0, <1>2, <2>2, <2>3, ThenFull
    <2>6. Keeps(a) /\ Went(a, two) BY <1>0, <2>5, FullKeeps DEF Full
    <2>7. Goes(a, {d, r}) /\ Stays(a) BY <1>0, <2>2, <2>4, <2>6, WentGoes, ThenStays
    <2>8. HadIn(todo'[l], d) /\ l = a BY <1>2, <1>6, <2>7 DEF Goes
    <2>9. invite'[l] = "none" BY <1>3, <1>6 DEF GInv, RingsArmed
    <2>10. \A t \in {d, r} : t[1] \notin {"claim", "claimLine"} /\ (Prepares(t) => a = l) BY <2>1, <2>8
    <2>11. \A b \in Actors : b \notin {a, l} => todo'[b] = todo[b] BY <2>7 DEF Stays
    <2>12. \E t : HadIn(todo'[l], t) /\ Prepares(t) BY <2>1, <2>8
    <2>13. UNCHANGED <<modem, call, opMu, gw, up, ofGw, closing, byModem, owner, races>> BY <1>1, <1>6
    <2>14. active[g] = None /\ active' = [active EXCEPT ![g] = l] BY <1>6
    <2>15. g \in Gateways /\ ofGw[l] = g BY <1>3
    <2>16. \A k \in Legs : k # l => invite'[k] = invite[k] BY <1>6
    <2> HIDE DEF g, Taken
    <2>17. Takes(a, l, g, {d, r})
      BY <2>7, <2>9, <2>10, <2>11, <2>12, <2>13, <2>14, <2>15, <2>16 DEF Takes
    <2>. QED BY <1>1, <1>3, <2>15, <2>17, LineTaken
  <1>. QED BY <1>4, <1>5, <1>6 DEF ClaimLine, GoRing

\* The sync loop takes the gateway out of the map and closes its active leg.
LEMMA GatewayMoves ==
  ASSUME IInv, WInv, GInv, SyncSIPInbound
  PROVE  GInv'
  <1> DEFINE a == "sync"  n == <<"newGateway", None>>
  <1>0. Typed /\ a \in Actors /\ Plain(n) BY PlainOnes DEF IInv, Actors, PlainOps
  <1>1. /\ todo[a] = <<>> /\ ~up'
        /\ active' = [active EXCEPT ![gw] = None] \/ UNCHANGED active
        /\ UNCHANGED <<modem, call, opMu, gw, invite, ofGw, closing, byModem, owner, races>>
    BY DEF SyncSIPInbound, workerVars, legVars
  <1>2. \/ todo' = [todo EXCEPT ![a] = <<n>>]
        \/ todo' = [todo EXCEPT ![a] = <<>> \o <<n>>]
        \/ \E l : todo' = [todo EXCEPT ![a] = <<<<"close", l>>>> \o <<n>>]
    BY DEF SyncSIPInbound, GatewayClose, NewGateway
  <1> HIDE DEF a, n
  <1>3. ASSUME NEW S, NEW steps \in Seq(S), todo' = [todo EXCEPT ![a] = steps],
               \A i \in 1..Len(steps) : Plain(steps[i])
        PROVE  \E X : Goes(a, X) /\ Stays(a) /\ \A t \in X : Plain(t)
    <2> DEFINE X == {t \in S : HadIn(steps, t)}
    <2>1. \A i \in 1..Len(steps) : steps[i] \in S OBVIOUS
    <2>2. (\A i \in 1..Len(steps) : steps[i] \in X) /\ \A t \in X : HadIn(steps, t)
      BY <2>1 DEF HadIn
    <2>3. \A t \in X : Plain(t) BY <1>3 DEF HadIn
    <2> HIDE DEF X
    <2>4. Goes(a, X) BY <1>0, <1>1, <1>3, <2>2, GoesStart
    <2>. QED BY <1>0, <1>3, <2>3, <2>4, ThenStays
  <1>4. PICK X : Goes(a, X) /\ Stays(a) /\ \A t \in X : Plain(t)
    <2>1. CASE todo' = [todo EXCEPT ![a] = <<n>>] \/ todo' = [todo EXCEPT ![a] = <<>> \o <<n>>]
      <3> DEFINE one == <<n>>
      <3>1. one \in Seq({n}) /\ Len(one) = 1 /\ one[1] = n /\ <<>> \o one = one OBVIOUS
      <3>2. todo' = [todo EXCEPT ![a] = one] BY <2>1, <3>1
      <3> HIDE DEF one
      <3>3. \A i \in 1..Len(one) : Plain(one[i]) BY <1>0, <3>1, Ranges
      <3>. QED BY <1>3, <3>1, <3>2, <3>3
    <2>2. ASSUME NEW l, todo' = [todo EXCEPT ![a] = <<<<"close", l>>>> \o <<n>>]
          PROVE  \E X : Goes(a, X) /\ Stays(a) /\ \A t \in X : Plain(t)
      <3> DEFINE c == <<"close", l>>  two == <<c, n>>
      <3>1. Plain(c) /\ todo' = [todo EXCEPT ![a] = two] BY <2>2, PairConcat, PlainOnes DEF PlainOps
      <3> HIDE DEF c
      <3>2. two \in Seq({c, n}) /\ \A i \in 1..Len(two) : two[i] \in {c, n} OBVIOUS
      <3> HIDE DEF two
      <3>3. \A i \in 1..Len(two) : Plain(two[i]) BY <1>0, <3>1, <3>2
      <3>. QED BY <1>3, <3>1, <3>2, <3>3
    <2>. QED BY <1>2, <2>1, <2>2
  <1>5. \A g \in Gateways : active'[g] \in {active[g], None} BY <1>0, <1>1 DEF Typed, Shape
  <1>6. Prepared(a, X) /\ ClaimsFrame(a, X) BY <1>4, PlainFrame
  <1>7. ActiveFrame /\ InviteFrame /\ LinesFrame /\ OpMoves(a)
    BY <1>1, <1>5 DEF ActiveFrame, InviteFrame, LinesFrame, OpMoves
  <1>8. Aside(a, X) BY <1>1, <1>4, <1>6, <1>7 DEF Aside
  <1>9. Calls(a) BY <1>1, SameCalls DEF SameCall, ClosingFrame
  <1>. QED BY <1>0, <1>1, <1>8, <1>9, AsideKept

\* The gateway it makes next has no active leg.
LEMMA NewGatewayMoves ==
  ASSUME IInv, WInv, GInv, NewSIPInboundGateway
  PROVE  GInv'
  <1> DEFINE a == "sync"
  <1>0. Typed /\ Places /\ Locks /\ a \in Actors BY DEF IInv, WInv, Actors
  <1>1. /\ Doing(a, "newGateway", None) /\ Then(a, <<>>)
        /\ UNCHANGED <<modem, call, opMu, active, invite, ofGw, closing, byModem, owner, races>>
        /\ (gw < MaxGateways /\ gw' = gw + 1) \/ UNCHANGED <<gw, up>>
    BY DEF NewSIPInboundGateway, workerVars, legVars
  <1> HIDE DEF a
  <1>2. todo[a] # <<>> /\ todo[a][1] = <<"newGateway", None>> BY <1>0, <1>1, StepFacts
  <1>3. OpMoves(a) /\ SameCall BY <1>1 DEF OpMoves, SameCall, ClosingFrame
  <1>4. "newGateway" \in Harmless BY DEF Harmless
  <1>5. CASE UNCHANGED <<gw, up>>
    <2>1. Same BY <1>1, <1>5 DEF Same
    <2>. QED BY <1>0, <1>1, <1>3, <1>4, <2>1, HarmlessStep
  <1>6. CASE gw < MaxGateways /\ gw' = gw + 1
    <2> DEFINE X == {}
    <2>1. Goes(a, X) /\ Stays(a) BY <1>0, <1>1, <1>2, GoesNone, ThenStays
    <2>2. Prepared(a, X) /\ ClaimsFrame(a, X) BY PlainFrame
    <2> HIDE DEF X
    <2>3. gw \in Nat /\ gw \in Gateways /\ gw + 1 \in Gateways
      <3>1. gw \in 1..MaxGateways BY <1>0 DEF Typed, TypeOK, Gateways
      <3>. QED BY <1>6, <3>1, BoundsAssumption DEF Gateways
    <2>4. /\ ActiveFrame /\ InviteFrame /\ ClosingFrame /\ races \subseteq races'
          /\ (InCall' => InCall) /\ Keeps(a)
      BY <1>1, <2>1 DEF ActiveFrame, InviteFrame, ClosingFrame, InCall, Goes
    <2>5. todo[a][1][1] \in Harmless BY <1>2, <1>4
    <2>6. LinesKnown'
      <3> SUFFICES ASSUME NEW l \in Legs, ofGw[l] # None PROVE ofGw[l] <= gw + 1 /\ l \in Lined
        BY <1>1, <1>6 DEF LinesKnown
      <3>1. ofGw[l] <= gw /\ l \in Lined BY DEF GInv, LinesKnown
      <3>2. ofGw[l] \in Gateways BY <1>0 DEF Typed, TypeOK
      <3>3. ofGw[l] \in 1..MaxGateways BY <3>2 DEF Gateways
      <3>. QED BY <2>3, <3>1, <3>3, BoundsAssumption
    <2>7. RingsArmed' /\ ByModemLined' BY <1>1 DEF GInv, RingsArmed, ByModemLined
    <2>8. Unclaimed' BY <1>0, <1>1, <2>1, <2>2, <2>4, UnclaimedKept DEF GInv, ClaimsFrame
    <2>9. RingWaits' BY <1>0, <2>1, <2>2, <2>4, RingWaitsKept DEF GInv
    <2>10. RingEnds' BY <1>0, <2>4, <2>5, HarmlessFacts, RingEndsKept DEF GInv
    <2>11. LegGoesOn'
      <3>1. active[gw + 1] = None
        <4> SUFFICES ASSUME active[gw + 1] # None PROVE FALSE OBVIOUS
        <4>1. active[gw + 1] \in Legs /\ ofGw[active[gw + 1]] = gw + 1
          BY <1>0, <2>3 DEF Typed, TypeOK
        <4>2. gw + 1 # None BY <2>3, NamesAssumption
        <4>3. gw + 1 <= gw BY <4>1, <4>2 DEF GInv, LinesKnown
        <4>. QED BY <2>3, <4>3
      <3>. QED BY <1>1, <1>6, <3>1 DEF LegGoesOn
    <2>12. PreparesOpen' BY <1>0, <2>1, <2>2, <2>4, PreparesOpenKept DEF GInv
    <2>13. DialsOut' BY <1>0, <2>1, <2>2, DialsOutKept DEF GInv
    <2>14. ModemEndsFirst'
      BY <1>0, <1>1, <1>3, <2>1, <2>2, <2>4, <2>5, HarmlessFacts, ModemEndsFirstKept DEF GInv
    <2>15. OwnerKnown' BY <1>0, <1>1, <2>4, <2>5, HarmlessFacts, OwnerKnownKept DEF GInv
    <2>16. ReleaseComes' BY <1>0, <1>1, <2>4, <2>5, HarmlessFacts, ReleaseComesKept DEF GInv
    <2>. QED BY <2>6, <2>7, <2>8, <2>9, <2>10, <2>11, <2>12, <2>13, <2>14, <2>15, <2>16 DEF GInv
  <1>. QED BY <1>1, <1>5, <1>6

-----------------------------------------------------------------------------
(* The replies of the modem.                                               *)

\* A goroutine that goes on with plain steps.
LEMMA PlainAside ==
  ASSUME Typed, NEW a \in Actors, NEW s, Went(a, s), Keeps(a), Stays(a), OpMoves(a), Same,
         \A i \in 1..Len(s) : Plain(s[i])
  PROVE  \E X : Aside(a, X) /\ \A t : HadIn(s, t) => t \in X
  <1> DEFINE X == {s[i] : i \in 1..Len(s)}
  <1>1. /\ \A i \in 1..Len(s) : s[i] \in X
        /\ \A t \in X : HadIn(s, t) /\ Plain(t)
        /\ \A t : HadIn(s, t) => t \in X
    BY DEF HadIn
  <1> HIDE DEF X
  <1>2. Goes(a, X) BY <1>1, WentGoes
  <1>3. Prepared(a, X) /\ ClaimsFrame(a, X) BY <1>1, PlainFrame
  <1>4. Aside(a, X) BY <1>2, <1>3, SameFrame DEF Aside
  <1>. QED BY <1>1, <1>4

\* A leg that places or answers the call goes on, or gives up.
GoesOn(a, c, X) == c \in {"ATD", "ATA"} /\ a \in Legs => \E t \in X : Moving(a, a, t)

\* A reply leaves the legs as they should be, if the call has its owner.
LEMMA ReplyLeaves ==
  ASSUME IInv, WInv, GInv, NEW a \in Actors, NEW c \in Commands, Doing(a, "at", c),
         UNCHANGED <<call, gw, up, active, closing>>, OwnerKnown', ReleaseComes',
         NEW X, Aside(a, X), GoesOn(a, c, X)
  PROVE  GInv'
  <1>0. Typed /\ Places /\ Locks /\ Keeps(a) /\ races \subseteq races' BY DEF IInv, WInv, Aside, Goes
  <1>1. todo[a] # <<>> /\ todo[a][1] = <<"at", c>> BY <1>0, StepFacts
  <1>2. ClosingFrame /\ ActiveFrame BY DEF ClosingFrame, ActiveFrame
  <1>3. RingEnds'
    <2>1. \A l : ~ClosesRing(a, l, todo[a][1]) BY <1>1 DEF ClosesRing
    <2>. QED BY <1>0, <2>1, RingEndsKept DEF GInv, Aside
  <1>4. PreparesOpen' BY <1>0, <1>2, PreparesOpenKept DEF GInv, Aside
  <1>5. ModemEndsFirst'
    <2>1. \A l : todo[a][1] # <<"close", l>> BY <1>1
    <2>. QED BY <1>0, <2>1, ModemEndsFirstKept DEF GInv, Aside
  <1>6. LegGoesOn'
    <2>1. \A l \in Legs : Moving(a, l, todo[a][1]) => l = a /\ c \in {"ATD", "ATA"}
      BY <1>1 DEF Moving, Prepares
    <2>2. ASSUME NEW l \in Legs, Moving(a, l, todo[a][1]) PROVE OnTheMove(l)'
      <3>1. l = a /\ c \in {"ATD", "ATA"} BY <2>1, <2>2
      <3>2. PICK t \in X : Moving(a, a, t) BY <3>1 DEF GoesOn
      <3>3. HadIn(todo'[a], t) BY DEF Aside, Goes
      <3>. QED BY <3>1, <3>2, <3>3, HadPrime DEF OnTheMove, Moving
    <2>. QED BY <1>0, <1>2, <2>2, LegGoesOnKept DEF GInv
  <1>7. LinesKnown' /\ RingsArmed' /\ Unclaimed' /\ RingWaits' /\ DialsOut' /\ ByModemLined'
    BY AsideFrame
  <1>8. OwnerKnown' /\ ReleaseComes' OBVIOUS
  <1>. QED BY <1>3, <1>4, <1>5, <1>6, <1>7, <1>8 DEF GInv

\* The leg that placed or answered the call is open, and not ended by the modem.
LEMMA OwnerTakes ==
  ASSUME IInv, WInv, GInv, NEW a \in Actors, NEW c \in {"ATD", "ATA"}, Doing(a, "at", c),
         todo[Loop] = <<>>, owner' = a, UNCHANGED <<byModem, closing>>, Keeps(a), races \subseteq races'
  PROVE  OwnerKnown' /\ ReleaseComes'
  <1>0. Typed /\ Places /\ Locks BY DEF IInv, WInv
  <1>1. todo[a] # <<>> /\ todo[a][1] = <<"at", c>> /\ 1 \in 1..Len(todo[a]) BY <1>0, StepFacts
  <1>2. Had(a, <<"at", c>>) /\ Prepares(<<"at", c>>) BY <1>1 DEF Had, HadIn, Prepares
  <1>3. Preparing(a) BY <1>2 DEF Preparing
  <1>4. a \notin Dials
    <2>1. <<"at", c>>[1] # "wait" OBVIOUS
    <2>. QED BY <1>2, <2>1 DEF GInv, DialsOut
  <1>5. Early => EarlyOrTimeout' BY DEF Early, EarlyOrTimeout, Unless
  <1>6. opMu = a
    <2>1. Locking(todo[a][1]) \/ c = "CFUN" BY <1>1 DEF Locking, Command
    <2>. QED BY <1>0, <1>1, <2>1 DEF Locks
  <1>7. ASSUME a \in byModem PROVE EarlyOrTimeout' \/ Rebooting'
    <2>1. Told(a) BY <1>3, <1>7 DEF GInv, ModemEndsFirst
    <2>2. ~Had(a, <<"wait", a>>)
      <3>1. First(<<"wait", a>>) BY DEF First
      <3>2. Had(a, <<"wait", a>>) => <<"wait", a>> = todo[a][1] BY <1>0, <3>1, PreparesHead
      <3>. QED BY <1>1, <3>2
    <2>3. ASSUME NEW b \in Actors \ {a}, Doing(b, "close", a), Origin(b) PROVE Rebooting'
      <3>1. b # Loop BY <2>3 DEF Doing
      <3>2. Rebooting BY <1>6, <2>3, <3>1 DEF Origin
      <3>3. todo[a][1] # Cfun BY <1>1 DEF Cfun
      <3>. QED BY <3>2, <3>3, RebootingKept
    <2>. QED BY <1>5, <2>1, <2>2, <2>3 DEF Told
  <1>8. OwnerKnown' BY <1>4, <1>7 DEF OwnerKnown
  <1>9. ReleaseComes'
    <2> SUFFICES ASSUME a \in Legs, closing[a] # "open" PROVE EarlyOrTimeout'
      BY DEF ReleaseComes
    <2>1. a \in Lined BY <1>4 DEF Legs, Lined
    <2>2. Early BY <1>3, <2>1 DEF GInv, PreparesOpen
    <2>. QED BY <1>5, <2>2
  <1>. QED BY <1>8, <1>9

\* A command that leaves the call with its owner, if there is one.
LEMMA OwnerStays ==
  ASSUME IInv, WInv, GInv, NEW a \in Actors, NEW c, Doing(a, "at", c), c # "CFUN",
         UNCHANGED <<owner, byModem, closing>>, Keeps(a), races \subseteq races', InCall' => InCall,
         c = "ATH" => ~InCall' \/ "timeout" \in races'
  PROVE  OwnerKnown' /\ ReleaseComes'
  <1>0. Typed BY DEF IInv
  <1>1. todo[a] # <<>> /\ todo[a][1] = <<"at", c>> BY <1>0, StepFacts
  <1>2. todo[a][1] # Cfun BY <1>1 DEF Cfun
  <1>3. OwnerKnown' BY <1>2, OwnerKnownKept DEF GInv
  <1>4. ClosingFrame BY DEF ClosingFrame
  <1>5. /\ todo[a][1] # <<"hangup", None>> /\ todo[a][1] # <<"legEnded", owner>>
        /\ todo[a][1] = <<"at", "ATH">> => c = "ATH"
    BY <1>1
  <1>6. "timeout" \in races' => EarlyOrTimeout' BY DEF EarlyOrTimeout, Unless
  <1>7. CASE c = "ATH" BY <1>3, <1>6, <1>7 DEF ReleaseComes
  <1>8. CASE c # "ATH"
    <2>1. ReleaseComes BY DEF GInv
    <2>. QED BY <1>2, <1>3, <1>4, <1>5, <1>8, <2>1, ReleaseComesKept
  <1>. QED BY <1>7, <1>8

\* The modem after the reset.
LEMMA RebootMoves ==
  ASSUME IInv, WInv, GInv, NEW a \in Actors, Reply(a, "CFUN")
  PROVE  GInv'
  <1>0. Typed BY DEF IInv
  <1>1. /\ Doing(a, "at", "CFUN") /\ UNCHANGED <<call, opMu, closing, owner>> /\ Same
    BY DEF Reply, gatewayVars, legVars, Race, Same
  <1>2. todo[a] # <<>> BY <1>0, <1>1, StepFacts
  <1>3. Then(a, <<>>)
    <2>1. Accepted("CFUN") = <<>> /\ Refused(a, "CFUN") = <<>> /\ ~Abandons("CFUN", Tail(todo[a]))
      BY DEF Accepted, Refused, Abandons
    <2>. QED BY <2>1 DEF Reply, Then
  <1>4. OpMoves(a) BY <1>1 DEF OpMoves
  <1>5. Aside(a, {}) BY <1>0, <1>1, <1>2, <1>3, <1>4, NoneAside
  <1>6. ~InCall' \/ EarlyOrTimeout'
    <2>1. modem' = "none" \/ "timeout" \in races' BY DEF Reply, Race, Effect
    <2>. QED BY <2>1 DEF InCall, EarlyOrTimeout, Unless
  <1>7. InCall' => InCall
    <2>1. modem' \in {modem, "none"} BY DEF Reply, Effect
    <2>. QED BY <2>1 DEF InCall
  <1>8. UNCHANGED byModem BY <1>1 DEF Same
  <1>9. OwnerKnown' BY <1>1, <1>6, <1>7, <1>8 DEF GInv, OwnerKnown
  <1>10. ReleaseComes' BY <1>6 DEF ReleaseComes
  <1>11. UNCHANGED <<call, gw, up, active, closing>> BY <1>1 DEF Same
  <1>12. GoesOn(a, "CFUN", {}) /\ "CFUN" \in Commands BY DEF GoesOn, Commands
  <1>. QED BY <1>1, <1>5, <1>9, <1>10, <1>11, <1>12, ReplyLeaves

\* What follows a reply is plain.
LEMMA TidyPlain ==
  ASSUME NEW a, NEW s, Tidy(a, s)
  PROVE  \A i \in 1..Len(s) : Plain(s[i])
  <1>1. Plain(UnlockStep) /\ Plain(GiveUpStep(a)) BY PlainOnes DEF UnlockStep, GiveUpStep, PlainOps
  <1>2. \A x : Plain(<<"set", x>>) BY PlainOnes
  <1>3. \A t \in {"set"} \X CallStates : Plain(t) BY <1>2
  <1>. QED BY <1>1, <1>3 DEF Tidy

\* The command was accepted, or the audio turned off.
LEMMA AcceptedMoves ==
  ASSUME IInv, WInv, GInv, NEW a \in Actors, NEW c \in Commands \ {"CFUN"}, Doing(a, "at", c),
         UNCHANGED <<call, opMu, closing>>, Same, Then(a, Accepted(c)), OwnerKnown', ReleaseComes'
  PROVE  GInv'
  <1>0. Typed BY DEF IInv
  <1>1. todo[a] # <<>> BY <1>0, StepFacts
  <1> DEFINE s == Accepted(c)
  <1>2. /\ \E S : s \in Seq(S)
        /\ Tidy(a, s)
        /\ c \in {"ATD", "ATA"} => \E x \in CallStates \ Idling : HadIn(s, <<"set", x>>)
    BY AcceptedSteps
  <1>3. Then(a, s) OBVIOUS
  <1> HIDE DEF s
  <1>4. Full(a, s) BY <1>0, <1>1, <1>2, <1>3, ThenFull
  <1>5. Keeps(a) /\ Went(a, s) BY <1>0, <1>4, FullKeeps DEF Full
  <1>6. Stays(a) BY <1>0, <1>3, ThenStays
  <1>7. OpMoves(a) BY DEF OpMoves
  <1>8. \A i \in 1..Len(s) : Plain(s[i]) BY <1>2, TidyPlain
  <1>9. PICK X : Aside(a, X) /\ \A t : HadIn(s, t) => t \in X
    BY <1>0, <1>5, <1>6, <1>7, <1>8, PlainAside
  <1>10. GoesOn(a, c, X) BY <1>2, <1>9 DEF GoesOn, Moving
  <1>11. UNCHANGED <<call, gw, up, active, closing>> BY DEF Same
  <1>. QED BY <1>9, <1>10, <1>11, ReplyLeaves

\* It was refused, or its reply did not come.
LEMMA RefusedMoves ==
  ASSUME IInv, WInv, GInv, NEW a \in Actors, NEW c \in {"ATD", "ATA", "ATH"}, Doing(a, "at", c),
         UNCHANGED <<call, opMu, closing>>, Same, GoRefused(a, c),
         Keeps(a) => OwnerKnown' /\ ReleaseComes'
  PROVE  GInv'
  <1>0. Typed BY DEF IInv
  <1> DEFINE r == Refused(a, c)
  <1>1. /\ \A i \in 1..Len(r) :
              r[i] = UnlockStep \/ r[i] = GiveUpStep(a) \/ r[i] = <<"set", Idle>>
        /\ c # "ATH" => HadIn(r, GiveUpStep(a))
    BY RefusedSteps
  <1>2. PICK s : Refuses(a, c, s) BY RefusedGoes
  <1>3. Len(s) = Len(r) /\ (\A i \in 1..Len(r) : s[i] = r[i]) /\ Keeps(a) /\ Went(a, s)
    BY <1>2 DEF Refuses
  <1> HIDE DEF r
  <1>4. Stays(a) BY <1>0, ThenStays DEF GoRefused
  <1>5. OpMoves(a) BY DEF OpMoves
  <1>6. \A i \in 1..Len(s) : Plain(s[i])
    <2>1. Plain(UnlockStep) /\ Plain(GiveUpStep(a)) /\ Plain(<<"set", Idle>>)
      BY PlainOnes DEF UnlockStep, GiveUpStep, PlainOps
    <2>. QED BY <1>1, <1>3, <2>1
  <1>7. PICK X : Aside(a, X) /\ \A t : HadIn(s, t) => t \in X
    BY <1>0, <1>3, <1>4, <1>5, <1>6, PlainAside
  <1>8. GoesOn(a, c, X)
    <2> SUFFICES ASSUME c \in {"ATD", "ATA"}, a \in Legs PROVE \E t \in X : Moving(a, a, t)
      BY DEF GoesOn
    <2>1. HadIn(s, GiveUpStep(a)) BY <1>1, <1>3 DEF HadIn
    <2>2. a # "web" BY NamesAssumption
    <2>3. Moving(a, a, GiveUpStep(a)) BY <2>2 DEF Moving, GiveUpStep
    <2>. QED BY <1>7, <2>1, <2>3
  <1>9. UNCHANGED <<call, gw, up, active, closing>> BY DEF Same
  <1>10. c \in Commands /\ OwnerKnown' /\ ReleaseComes' BY <1>3 DEF Commands
  <1>. QED BY <1>7, <1>8, <1>9, <1>10, ReplyLeaves

\* The reply to any command.
LEMMA ReplyMoves ==
  ASSUME IInv, WInv, GInv, NEW a \in Actors, NEW c \in Commands, Reply(a, c)
  PROVE  GInv'
  <1>0. Typed BY DEF IInv
  <1>1. /\ Doing(a, "at", c) /\ UNCHANGED <<call, opMu, closing>> /\ Same /\ todo[Loop] = <<>>
        /\ owner' = IF c \in {"ATD", "ATA"} /\ modem' # modem THEN a ELSE owner
    BY DEF Reply, gatewayVars, legVars, Race, Same
  <1>2. UNCHANGED byModem /\ races \subseteq races' BY <1>1 DEF Same
  <1>3. CASE c = "CFUN" BY <1>3, RebootMoves
  <1>4. ASSUME c # "CFUN", Keeps(a), modem' \in {modem, Effect(c)},
               c = "ATH" => modem' = "none" \/ "timeout" \in races'
        PROVE  OwnerKnown' /\ ReleaseComes'
    <2>1. CASE c \in {"ATD", "ATA"} /\ modem' # modem
      BY <1>1, <1>2, <1>4, <2>1, OwnerTakes
    <2>2. CASE ~(c \in {"ATD", "ATA"} /\ modem' # modem)
      <3>1. owner' = owner BY <1>1, <2>2
      <3>2. modem' \in {modem, "none"} BY <1>4, <2>2 DEF Effect, Commands
      <3>3. (InCall' => InCall) /\ (c = "ATH" => ~InCall' \/ "timeout" \in races')
        BY <1>4, <3>2 DEF InCall
      <3>. QED BY <1>1, <1>2, <1>4, <3>1, <3>3, OwnerStays
    <2>. QED BY <2>1, <2>2
  <1>5. ASSUME c # "CFUN", Then(a, Accepted(c)), modem' \in {modem, Effect(c)},
               c = "ATH" => modem' = "none" \/ "timeout" \in races'
        PROVE  GInv'
    <2>1. todo[a] # <<>> BY <1>0, <1>1, StepFacts
    <2>2. Keeps(a)
      <3> DEFINE s == Accepted(c)
      <3>1. (\E S : s \in Seq(S)) /\ Then(a, s) BY <1>5, AcceptedSteps
      <3> HIDE DEF s
      <3>2. Full(a, s) BY <1>0, <2>1, <3>1, ThenFull
      <3>. QED BY <1>0, <3>2, FullKeeps
    <2>. QED BY <1>1, <1>4, <1>5, <2>2, AcceptedMoves
  <1>6. CASE c # "CFUN" /\ Then(a, Accepted(c)) /\ modem' = Effect(c)
    BY <1>5, <1>6 DEF Effect
  <1>7. CASE /\ c # "CFUN" /\ GoRefused(a, c)
             /\ modem' \in {modem, Effect(c)}
             /\ Race(IF modem' # modem \/ c \in {"ATH", "CFUN"} THEN {"timeout"} ELSE {})
    <2>1. c = "ATH" => "timeout" \in races' BY <1>7 DEF Race
    <2>2. CASE c \in {"ATD", "ATA", "ATH"} BY <1>1, <1>4, <1>7, <2>1, <2>2, RefusedMoves
    <2>3. CASE c = "QPCMV"
      <3>1. Refused(a, c) = Accepted(c) /\ ~Abandons(c, Tail(todo[a]))
        BY <2>3 DEF Refused, Abandons
      <3>2. Then(a, Accepted(c)) BY <1>7, <3>1 DEF Then, GoRefused
      <3>. QED BY <1>5, <1>7, <2>3, <3>2
    <2>. QED BY <1>7, <2>2, <2>3 DEF Commands
  <1>. QED BY <1>3, <1>6, <1>7 DEF Reply, Then, GoRefused

-----------------------------------------------------------------------------
(* GInv is invariant.                                                      *)

LEMMA GInit ==
  ASSUME Init
  PROVE  GInv
  <1> USE DEF Init
  <1>1. \A b \in Actors : \A t : ~Had(b, t)
    <2>1. \A b \in Actors : todo[b] = <<>> /\ \A i \in 1..Len(todo[b]) : FALSE OBVIOUS
    <2>. QED BY <2>1 DEF Had, HadIn
  <1>2. \A l \in Legs : ~Preparing(l) BY <1>1, LegNames DEF Preparing
  <1>3. \A l \in Legs : ofGw[l] = None /\ invite[l] = "none" /\ ~Out(l) BY DEF Out
  <1>4. LinesKnown /\ RingsArmed /\ RingWaits /\ RingEnds
    BY <1>3 DEF LinesKnown, RingsArmed, RingWaits, RingEnds
  <1>5. Unclaimed
    <2>1. \A l \in Lined : l \notin byModem /\ l # None BY LegNames
    <2>2. \A g \in Gateways : active[g] = None OBVIOUS
    <2>. QED BY <2>1, <2>2 DEF Unclaimed
  <1>6. LegGoesOn
    <2>1. 1 \in Gateways BY BoundsAssumption DEF Gateways
    <2>. QED BY <2>1 DEF LegGoesOn
  <1>7. PreparesOpen /\ ByModemLined /\ ModemEndsFirst
    BY <1>2, LegNames DEF PreparesOpen, ByModemLined, ModemEndsFirst
  <1>8. DialsOut BY <1>1, LegNames DEF DialsOut
  <1>9. OwnerKnown /\ ReleaseComes BY DEF OwnerKnown, ReleaseComes, InCall
  <1>. QED BY <1>4, <1>5, <1>6, <1>7, <1>8, <1>9 DEF GInv

LEMMA GStep ==
  ASSUME IInv, WInv, GInv, NEW a \in Actors, Step(a)
  PROVE  GInv'
  <1>1. CASE Dial(a) \/ Answer(a) BY <1>1, CallMoves
  <1>2. CASE Hangup(a) BY <1>2, HangupMoves
  <1>3. CASE Unlock(a) \/ CloseSession(a) \/ EndSessionCallFromModem(a) BY <1>3, HarmlessMoves
  <1>4. ASSUME NEW l \in Legs, ClearSipCall(a, l) \/ Closed(a, l) \/ RespondSDP(a, l)
        PROVE  GInv'
    BY <1>4, HarmlessMoves
  <1>5. ASSUME NEW l \in Legs,
               \/ EndLegFromModem(a, l) \/ Close(a, l) \/ HandleLegEnded(a, l)
               \/ ClaimSipCall(a, l) \/ ClaimLine(a, l) \/ WaitAnswer(a, l)
        PROVE  GInv'
    BY <1>5, EndLegMoves, CloseMakes, LegEndedMoves, ClaimSipMoves, ClaimLineMoves, WaitMoves
  <1>6. ASSUME NEW x, SetCallState(a, x) \/ SyncModemState(a, x) PROVE GInv'
    BY <1>6, StateMoves, SyncMoves
  <1>. QED BY <1>1, <1>2, <1>3, <1>4, <1>5, <1>6 DEF Step

LEMMA GNext ==
  ASSUME IInv, WInv, GInv, [Next]_vars
  PROVE  GInv'
  <1>1. CASE RemoteAnswers \/ RemoteRings \/ RemoteEnds \/ UNCHANGED vars
    <2>1. UNCHANGED <<call, gw, up, active, invite, ofGw, closing, byModem, opMu, todo, owner, races>>
      BY <1>1 DEF RemoteAnswers, RemoteRings, RemoteEnds, gatewayVars, legVars, workerVars, vars
    <2>2. InCall' => InCall
      BY <1>1 DEF RemoteAnswers, RemoteRings, RemoteEnds, vars, workerVars, InCall
    <2>. QED BY <2>1, <2>2, StillModem
  <1>2. CASE Network
    <2>1. CASE RemoteAnswers \/ RemoteRings \/ RemoteEnds BY <1>1, <2>1
    <2>2. CASE \E i \in Invites : OnInvite(i) BY <2>2, HandlersStart
    <2>3. CASE \E l \in Legs : OnBye(l) BY <2>3, ByeStarts
    <2>. QED BY <1>2, <2>1, <2>2, <2>3 DEF Network
  <1>3. CASE Api
    <2>1. CASE WebDial \/ WebHangup \/ WebReboot BY <2>1, WebStarts
    <2>2. CASE Reboot \/ SetUACReady \/ HangupSIP
      <3>1. PICK a \in Actors : a = "web" BY DEF Actors
      <3>. QED BY <2>2, <3>1, HarmlessMoves
    <2>3. CASE \E d \in Dials : DialSIP(d) BY <2>3, HandlersStart
    <2>. QED BY <1>3, <2>1, <2>2, <2>3 DEF Api
  <1>4. CASE SyncSIPInbound \/ NewSIPInboundGateway BY <1>4, GatewayMoves, NewGatewayMoves
  <1>5. CASE HandleURC BY <1>5, LineStarts
  <1>6. ASSUME NEW a \in Actors, Step(a) \/ \E c \in Commands : Reply(a, c) PROVE GInv'
    BY <1>6, GStep, ReplyMoves
  <1>. QED BY <1>1, <1>2, <1>3, <1>4, <1>5, <1>6 DEF Next

LEMMA GInvariance == Spec => []GInv
  BY Invariance, WInvariance, GInit, GNext, PTL DEF Spec

\* An open leg has its call (LegHasCall): whatever ends the call of the modem,
\* its NO CARRIER, the Hangup of the worker or a refused ATD, the listener that
\* main registers reaches the leg that has the line, through syncModemState,
\* endLegFromModem and Close, whoever runs it and whatever the handler of the
\* leg was doing; unless one of the races of the model came in between.
THEOREM LegEndsWithItsCall == Spec => []LegHasCall
  <1>1. ASSUME IInv, WInv, GInv PROVE LegHasCall
    <2> SUFFICES ASSUME Quiet, up, active[gw] # None, modem = "none",
                        ~Unless({"early", "late", "timeout"})
                 PROVE  FALSE
      BY DEF LegHasCall
    <2>1. ~Unless({"late", "timeout"}) /\ ~Early BY DEF Unless, Early
    <2>2. call.state = "idle" BY <1>1, <2>1, QuietFacts DEF WInv, EndComes
    <2>3. OnTheMove(active[gw]) BY <1>1, <2>1, <2>2 DEF GInv, LegGoesOn
    <2>. QED BY <2>3, QuietFacts DEF OnTheMove
  <1>. QED BY <1>1, Invariance, WInvariance, GInvariance, PTL

\* A call of the modem does not outlive the leg that placed or answered it
\* (ModemReleased): the Close of the leg leads through handleLegEnded to the
\* Hangup of the worker, which it leaves out only for a leg that the modem ended
\* itself; and such a leg does not get to place or answer a call afterwards.
THEOREM ModemIsReleased == Spec => []ModemReleased
  <1>1. ASSUME IInv, WInv, GInv PROVE ModemReleased
    <2> SUFFICES ASSUME Quiet, InCall, owner \in Legs, closing[owner] # "open",
                        ~EarlyOrTimeout
                 PROVE  FALSE
      BY DEF ModemReleased, InCall, EarlyOrTimeout
    <2>. QED BY <1>1, QuietFacts DEF GInv, ReleaseComes
  <1>. QED BY <1>1, Invariance, WInvariance, GInvariance, PTL
=============================================================================
