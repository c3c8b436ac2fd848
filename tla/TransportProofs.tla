-------------------------- MODULE TransportProofs --------------------------
(***************************************************************************)
(* Proofs about Transport, for any set of callers and listeners, any       *)
(* number of calls and events, and every setting of the environment flags. *)
(***************************************************************************)
EXTENDS Transport, TLAPS

Message == Answer \cup Event \cup {ConnectionShutdown}

LEMMA FrameFacts ==
  ASSUME NEW c \in Callers
  PROVE  T(c) \in Frames /\ B(c) \in Frames /\ T(c) # B(c)
BY DEF T, B, Frames

(* Taking a message off the queue leaves a queue of messages.              *)
LEMMA QueueTail ==
  ASSUME NEW S, NEW q \in Seq(S), q # <<>>
  PROVE  Head(q) \in S /\ Tail(q) \in Seq(S)
OBVIOUS

(* A message marked as an answer is one: neither an event nor the          *)
(* shutdown message carries that mark.                                     *)
LEMMA MarkedAnswer ==
  ASSUME NEW m \in Message, m.type = "answer"
  PROVE  m \in Answer
BY DEF Message, Event, ConnectionShutdown

LEMMA DropTyped ==
  ASSUME TypeOK, NEW S, DropReceivers(S)
  PROVE  /\ callId' \in [Frames -> Nat \cup {None}]
         /\ inbox' \in [Frames -> Seq(Answer \cup {Closed})]
<1>1. callId' \in [Frames -> Nat \cup {None}]
  BY DEF TypeOK, DropReceivers
<1>2. \A f \in Frames : (IF f \in S THEN <<>> ELSE inbox[f]) \in Seq(Answer \cup {Closed})
  BY DEF TypeOK
<1>3. QED
  BY <1>1, <1>2 DEF DropReceivers

LEMMA RegisterTyped ==
  ASSUME TypeOK, NEW f \in Frames, RegisterCall(f)
  PROVE  /\ callId' \in [Frames -> Nat \cup {None}]
         /\ calls' \in SUBSET [id : Nat, rx : Frames]
         /\ nextId' \in Nat
BY DEF TypeOK, RegisterCall, Removed

LEMMA TypeInit == Init => TypeOK
BY BoundsAreNat DEF Init, TypeOK, CallerPCs, LoopPCs

LEMMA GotoTyped ==
  ASSUME TypeOK, NEW c \in Callers, NEW label \in CallerPCs, Goto(c, label)
  PROVE  pc' \in [Callers -> CallerPCs]
BY DEF TypeOK, Goto

(* Which of a caller's frames have an id, by where the caller is.          *)
Shape ==
  \A c \in Callers :
    /\ callId[B(c)] # None <=> pc[c] \in {"send", "unregister", "wait", "expired"}
    /\ pc[c] \in {"check", "unregisterT", "waitT", "expiredT"} => Nested(c)
    /\ pc[c] \in {"idle", "registerT", "panicked"} => ~Nested(c)

(* Each step of a caller keeps the types.                                  *)
LEMMA TypeCaller ==
  ASSUME TypeOK, Shape, NEW c \in Callers,
         CallerStep(c) \/ \E d \in {"target", "browser"} : StartCall(c, d)
  PROVE  TypeOK'
<1>l. /\ "idle" \in CallerPCs /\ "registerT" \in CallerPCs /\ "check" \in CallerPCs
      /\ "register" \in CallerPCs /\ "send" \in CallerPCs /\ "unregister" \in CallerPCs
      /\ "wait" \in CallerPCs /\ "expired" \in CallerPCs /\ "unregisterT" \in CallerPCs
      /\ "waitT" \in CallerPCs /\ "expiredT" \in CallerPCs /\ "panicked" \in CallerPCs
  BY DEF CallerPCs
<1>1. ASSUME NEW d \in {"target", "browser"}, StartCall(c, d) PROVE TypeOK'
  <2>1. pc' \in [Callers -> CallerPCs]
    <3> DEFINE label == IF ~open THEN "idle"
                        ELSE IF d = "target" THEN "registerT" ELSE "register"
    <3>1. label \in CallerPCs BY <1>l
    <3> HIDE DEF label
    <3>2. Goto(c, label) BY <1>1 DEF StartCall, label
    <3>3. QED BY <3>1, <3>2, GotoTyped
  <2>2. /\ made' \in [Callers -> Nat]
        /\ \A e \in Callers : made'[e] <= MaxCalls[e]
    <3>1. /\ made \in [Callers -> Nat] /\ \A e \in Callers : made[e] <= MaxCalls[e]
          /\ made' = [made EXCEPT ![c] = made[c] + 1] /\ made[c] < MaxCalls[c]
      BY <1>1 DEF TypeOK, StartCall
    <3>2. \A e \in Callers : MaxCalls[e] \in Nat BY BoundsAreNat
    <3>3. QED BY <3>1, <3>2
  <2>3. QED BY <1>1, <2>1, <2>2 DEF TypeOK, StartCall, NotCaller, routeVars
<1>2. ASSUME NEW f \in Frames, NEW from, NEW to \in CallerPCs, Register(c, f, from, to)
      PROVE TypeOK'
  <2>1. CASE RegisterCall(f) /\ Goto(c, to) /\ UNCHANGED <<poisoned, inbox>>
    BY <1>2, <2>1, RegisterTyped, GotoTyped DEF TypeOK, Register, NotCaller, routeVars
  <2>2. CASE CallerPanics(c)
    BY <1>2, <2>2, <1>l, DropTyped, GotoTyped
       DEF TypeOK, Register, CallerPanics, NotCaller, routeVars
  <2>3. QED BY <1>2, <2>1, <2>2 DEF Register
<1>3. CASE CheckNested(c)
  BY <1>3, <1>l, GotoTyped DEF TypeOK, CheckNested, NotCaller, routeVars
<1>4. CASE Send(c)
  <2>1. T(c) \in Frames /\ B(c) \in Frames
    BY FrameFacts
  <2>2. callId[B(c)] \in Nat /\ callId[T(c)] \in Nat \cup {None} /\ made[c] \in Nat
    BY <1>4, <2>1 DEF TypeOK, Shape, Send
  <2>3. NewRequests(c) \subseteq Request
    BY <2>1, <2>2 DEF NewRequests, Request, Nested
  <2>4. QED BY <1>4, <1>l, <2>3, GotoTyped DEF TypeOK, Send, NotCaller, routeVars
<1>p. ASSUME CallerPanics(c), UNCHANGED <<made, owed>>, NotCaller PROVE TypeOK'
  BY <1>p, <1>l, DropTyped, GotoTyped DEF TypeOK, CallerPanics, NotCaller, routeVars
<1>q. ASSUME NEW label \in CallerPCs, Goto(c, label), NEW S, DropReceivers(S),
             calls' \subseteq calls, UNCHANGED <<poisoned, nextId, made, owed>>, NotCaller
      PROVE  TypeOK'
  BY <1>q, DropTyped, GotoTyped DEF TypeOK, NotCaller, routeVars
<1>r. \A id : Removed(id) \subseteq calls
  BY DEF Removed
<1>5. CASE Unregister(c)
  BY <1>5, <1>l, <1>p, <1>q, <1>r DEF Unregister, BrowserCallFails
<1>6. CASE UnregisterTarget(c)
  BY <1>6, <1>l, <1>p, <1>q, <1>r DEF UnregisterTarget, Return
<1>7. CASE ReceiveBrowser(c)
  BY <1>7, <1>l, <1>q DEF ReceiveBrowser, BrowserCallFails
<1>8. CASE ReceiveTarget(c)
  BY <1>8, <1>l, <1>q DEF ReceiveTarget, Return
<1>9. CASE LastPoll(c)
  BY <1>9, <1>l, GotoTyped DEF TypeOK, LastPoll, NotCaller, routeVars
<1>10. CASE TimeOut(c)
  BY <1>10, <1>l, <1>q DEF TimeOut, BrowserCallFails, Return
<1>11. QED
  BY <1>1, <1>2, <1>3, <1>4, <1>5, <1>6, <1>7, <1>8, <1>9, <1>10, <1>l, FrameFacts
     DEF CallerStep, RegisterTarget, RegisterBrowser

(* The steps of the application that shuts down or listens, of Chrome and  *)
(* of the WebSocket thread.                                                *)
Environment ==
  \/ ShutdownSocket \/ ShutdownSignal
  \/ \E l \in Listeners : Listen(l) \/ ReceiverEnds(l) \/ WsForwardsEvent(l)
  \/ \E r \in owed, ok \in BOOLEAN : WsForwardsAnswer(r, ok)
  \/ WsCloses \/ WsPanics

LEMMA NextCases ==
  ASSUME [Next]_vars
  PROVE  \/ UNCHANGED vars
         \/ Environment
         \/ LoopStep
         \/ \E c \in Callers : CallerStep(c) \/ \E d \in {"target", "browser"} : StartCall(c, d)
BY DEF Next, Environment

LEMMA TypeEnvironment ==
  ASSUME TypeOK, Environment
  PROVE  TypeOK'
<1>1. CASE ShutdownSocket
  BY <1>1 DEF TypeOK, ShutdownSocket, NotApp, callerVars, routeVars, chromeVars
<1>2. CASE ShutdownSignal
  BY <1>2 DEF TypeOK, ShutdownSignal, NotApp, callerVars, routeVars, chromeVars
<1>3. ASSUME NEW l \in Listeners, Listen(l) PROVE TypeOK'
  BY <1>3 DEF TypeOK, Listen, NotApp, callerVars, chromeVars
<1>4. ASSUME NEW l \in Listeners, ReceiverEnds(l) PROVE TypeOK'
  BY <1>4 DEF TypeOK, ReceiverEnds, NotApp, callerVars, chromeVars
<1>f. ASSUME NEW m \in Message, Forward(m)
      PROVE  msgs' \in Seq(Message) /\ ws' \in {"reading", "done", "panicked"}
  <2>1. msgs \in Seq(Message) /\ ws \in {"reading", "done", "panicked"}
    BY DEF TypeOK, Message
  <2>2. QED BY <1>f, <2>1 DEF Forward
<1>5. ASSUME NEW l \in Listeners, WsForwardsEvent(l) PROVE TypeOK'
  <2>1. [type |-> "event", to |-> l] \in Message
    BY DEF Message, Event
  <2>2. events' \in 0..MaxEvents
    BY <1>5, BoundsAreNat DEF TypeOK, WsForwardsEvent
  <2>3. QED
    BY <1>5, <2>1, <2>2, <1>f
       DEF TypeOK, WsForwardsEvent, NotWs, callerVars, routeVars, Message
<1>6. ASSUME NEW r \in owed, NEW ok \in BOOLEAN, WsForwardsAnswer(r, ok) PROVE TypeOK'
  <2> DEFINE a == [type |-> "answer", id |-> r.id, from |-> r.from, nth |-> r.nth,
                   ok |-> ok]
  <2>1. a \in Message
    BY DEF TypeOK, Message, Answer, Request
  <2>2. Forward(a)
    BY <1>6 DEF WsForwardsAnswer
  <2> HIDE DEF a
  <2>3. msgs' \in Seq(Message) /\ ws' \in {"reading", "done", "panicked"}
    BY <2>1, <2>2, <1>f
  <2>4. QED
    BY <1>6, <2>3
       DEF TypeOK, WsForwardsAnswer, NotWs, callerVars, routeVars, Message
<1>7. CASE WsCloses
  BY <1>7 DEF TypeOK, WsCloses, NotWs, callerVars, routeVars
<1>8. CASE WsPanics
  BY <1>8 DEF TypeOK, WsPanics, NotWs, callerVars, routeVars
<1>9. QED
  BY <1>1, <1>2, <1>3, <1>4, <1>5, <1>6, <1>7, <1>8 DEF Environment

LEMMA TypeLoop ==
  ASSUME TypeOK, LoopStep
  PROVE  TypeOK'
<1>l. \A p \in {"break", "shutdown", "close", "cancel", "clear"} : TailOrder[p] \in LoopPCs
  BY DEF TailOrder, LoopPCs
<1>m. "check" \in LoopPCs /\ "recv" \in LoopPCs /\ "panicked" \in LoopPCs
  BY DEF LoopPCs
<1>t. ASSUME NEW type, Takes(type)
      PROVE  Head(msgs) \in Message /\ Tail(msgs) \in Seq(Message)
  BY <1>t, QueueTail DEF TypeOK, Takes, Message
<1>1. CASE LoopChecksShutdown
  BY <1>1, <1>l, <1>m DEF TypeOK, LoopChecksShutdown, NotLoop, chromeVars
<1>2. CASE LoopHearsNothing
  BY <1>2, <1>l DEF TypeOK, LoopHearsNothing, NotLoop, chromeVars
<1>3. CASE LoopHearsShutdown
  BY <1>3, <1>l, <1>t DEF TypeOK, LoopHearsShutdown, Break, NotLoop, chromeVars, Message
<1>4. CASE LoopResolvesCall
  <2> DEFINE answer == Head(msgs)
             entry  == CHOOSE e \in calls : e.id = answer.id
  <2>1. answer \in Answer /\ Tail(msgs) \in Seq(Message)
    BY <1>4, <1>t, MarkedAnswer DEF LoopResolvesCall, Takes
  <2>2. CASE LoopPanics("calls") /\ UNCHANGED <<calls, inbox>>
    <3>1. /\ loop' = "panicked" /\ msgs' = <<>> /\ poisoned' = poisoned \cup {"calls"}
          /\ UNCHANGED <<calls, inbox>>
      BY <2>2 DEF LoopPanics
    <3>2. UNCHANGED <<open, socket, listeners>> /\ NotLoop
      BY <1>4 DEF LoopResolvesCall
    <3> QED
      BY <1>m, <3>1, <3>2 DEF TypeOK, NotLoop, chromeVars
  <2>3. CASE /\ Registered(answer.id) /\ calls' = Removed(answer.id)
             /\ UNCHANGED poisoned
             /\ callId[entry.rx] = answer.id /\ Continue
             /\ inbox' = [inbox EXCEPT ![entry.rx] = Append(@, answer)]
    <3>1. entry \in calls
      BY <2>3 DEF Registered
    <3>2. entry.rx \in Frames /\ inbox[entry.rx] \in Seq(Answer \cup {Closed})
      BY <3>1 DEF TypeOK
    <3> HIDE DEF entry, answer
    <3>3. inbox' \in [Frames -> Seq(Answer \cup {Closed})]
      BY <2>1, <2>3, <3>2 DEF TypeOK
    <3>4. QED
      BY <1>4, <1>m, <2>1, <2>3, <3>3
         DEF TypeOK, LoopResolvesCall, Continue, NotLoop, chromeVars, Removed, Message
  <2>4. CASE calls' = Removed(answer.id) /\ UNCHANGED <<poisoned, inbox>> /\ Break
    BY <1>4, <1>l, <2>1, <2>4
       DEF TypeOK, LoopResolvesCall, Break, NotLoop, chromeVars, Removed, Message
  <2>5. QED
    BY <1>4, <2>2, <2>3, <2>4 DEF LoopResolvesCall
<1>5. CASE LoopRoutesEvent
  <2>1. Tail(msgs) \in Seq(Message)
    BY <1>5, <1>t DEF LoopRoutesEvent
  <2>2. CASE LoopPanics("listeners")
    BY <1>5, <1>m, <2>2 DEF TypeOK, LoopRoutesEvent, LoopPanics, NotLoop, chromeVars
  <2>3. CASE (Continue \/ Break) /\ UNCHANGED poisoned
    BY <1>5, <1>l, <1>m, <2>1, <2>3
       DEF TypeOK, LoopRoutesEvent, Continue, Break, NotLoop, chromeVars, Message
  <2>4. QED
    BY <1>5, <2>2, <2>3 DEF LoopRoutesEvent
<1>6. CASE TailShutsConnection
  BY <1>6, <1>l DEF TypeOK, TailShutsConnection, NotLoop, chromeVars
<1>7. CASE TailClosesFlag
  BY <1>7, <1>l DEF TypeOK, TailClosesFlag, NotLoop, chromeVars
<1>8. CASE TailCancelsCalls
  <2>1. CASE CancelOutstandingMethodCalls /\ loop' = TailOrder.cancel
             /\ UNCHANGED <<poisoned, msgs>>
    <3>1. \A f \in Frames : /\ inbox[f] \in Seq(Answer \cup {Closed})
                            /\ Append(inbox[f], Closed) \in Seq(Answer \cup {Closed})
      BY DEF TypeOK
    <3>2. inbox' \in [Frames -> Seq(Answer \cup {Closed})]
      BY <2>1, <3>1 DEF CancelOutstandingMethodCalls
    <3>3. QED
      BY <1>8, <1>l, <2>1, <3>2
         DEF TypeOK, TailCancelsCalls, CancelOutstandingMethodCalls, NotLoop, chromeVars
  <2>2. CASE LoopPanics("calls") /\ UNCHANGED <<calls, inbox>>
    BY <1>8, <1>m, <2>2
       DEF TypeOK, TailCancelsCalls, LoopPanics, NotLoop, chromeVars
  <2>3. QED
    BY <1>8, <2>1, <2>2 DEF TailCancelsCalls
<1>9. CASE TailClearsListeners
  BY <1>9, <1>l DEF TypeOK, TailClearsListeners, NotLoop, chromeVars
<1>10. QED
  BY <1>1, <1>2, <1>3, <1>4, <1>5, <1>6, <1>7, <1>8, <1>9 DEF LoopStep

-----------------------------------------------------------------------------
(* The registry invariant.                                                 *)

Early == {"check", "recv", "shutdown", "close", "cancel"}

IdsBelowNext ==
  /\ \A f \in Frames : callId[f] # None => callId[f] < nextId
  /\ \A e \in calls : e.id < nextId
IdsDistinct ==
  \A f, g \in Frames : callId[f] # None /\ callId[f] = callId[g] => f = g
EntriesMatch ==
  \A e \in calls : \A f \in Frames : callId[f] = e.id => e.rx = f
Covered ==
  \A f \in Frames : callId[f] # None =>
    Answered(f) \/ [id |-> callId[f], rx |-> f] \in calls
Replies ==
  /\ \A f \in Frames : callId[f] = None => inbox[f] = <<>>
  /\ \A f \in Frames : Len(inbox[f]) <= 1
  /\ loop \in Early =>
       \A f \in Frames : Answered(f) => [id |-> callId[f], rx |-> f] \notin calls

RegistryInv == IdsBelowNext /\ IdsDistinct /\ EntriesMatch /\ Covered /\ Replies

(* What a step does to the registry and to the reply channels.             *)
Quiet     == UNCHANGED <<nextId, calls, callId, inbox>>
Registers == \E f \in Frames : callId[f] = None /\ RegisterCall(f) /\ UNCHANGED inbox
Drops     == \E S \in SUBSET Frames : DropReceivers(S) /\ UNCHANGED <<nextId, calls>>
Unregisters ==
  \E f \in Frames, S \in SUBSET Frames :
    /\ f \in S /\ callId[f] # None
    /\ calls' = Removed(callId[f])
    /\ DropReceivers(S) /\ UNCHANGED nextId
Resolves ==
  /\ loop = "recv" /\ UNCHANGED <<nextId, callId>>
  /\ \E e \in calls, a \in Answer :
       /\ calls' = Removed(e.id)
       /\ \/ callId[e.rx] = e.id /\ inbox' = [inbox EXCEPT ![e.rx] = Append(@, a)]
          \/ callId[e.rx] # e.id /\ UNCHANGED inbox
Cancels ==
  /\ loop = "cancel" /\ loop' = "clear"
  /\ CancelOutstandingMethodCalls /\ UNCHANGED <<nextId, callId>>

RegistryStep == Quiet \/ Registers \/ Drops \/ Unregisters \/ Resolves \/ Cancels

LEMMA CallerRegistryStep ==
  ASSUME TypeOK, Shape, NEW c \in Callers,
         CallerStep(c) \/ \E d \in {"target", "browser"} : StartCall(c, d)
  PROVE  RegistryStep /\ loop' = loop
<1>f. T(c) \in Frames /\ B(c) \in Frames /\ {T(c), B(c)} \in SUBSET Frames
      /\ {B(c)} \in SUBSET Frames
  BY FrameFacts
<1>p. CallerPanics(c) => Drops
  BY <1>f DEF CallerPanics, Drops
<1>1. ASSUME NEW d \in {"target", "browser"}, StartCall(c, d) PROVE RegistryStep /\ loop' = loop
  BY <1>1 DEF StartCall, NotCaller, RegistryStep, Quiet
<1>2. CASE RegisterTarget(c)
  <2>1. callId[T(c)] = None
    BY <1>2 DEF RegisterTarget, Register, Shape, Nested
  <2>2. QED
    BY <1>2, <1>f, <1>p, <2>1
       DEF RegisterTarget, Register, RegistryStep, Registers, NotCaller
<1>3. CASE RegisterBrowser(c)
  <2>1. callId[B(c)] = None
    BY <1>3 DEF RegisterBrowser, Register, Shape
  <2>2. QED
    BY <1>3, <1>f, <1>p, <2>1
       DEF RegisterBrowser, Register, RegistryStep, Registers, NotCaller
<1>4. CASE CheckNested(c)
  BY <1>4 DEF CheckNested, NotCaller, RegistryStep, Quiet
<1>5. CASE Send(c)
  BY <1>5 DEF Send, NotCaller, RegistryStep, Quiet
<1>6. CASE Unregister(c)
  <2>1. callId[B(c)] # None
    BY <1>6 DEF Unregister, Shape
  <2>2. QED
    BY <1>6, <1>f, <1>p, <2>1
       DEF Unregister, BrowserCallFails, RegistryStep, Unregisters, NotCaller
<1>7. CASE UnregisterTarget(c)
  <2>1. callId[T(c)] # None
    BY <1>7 DEF UnregisterTarget, Shape, Nested
  <2>2. QED
    BY <1>7, <1>f, <1>p, <2>1
       DEF UnregisterTarget, Return, RegistryStep, Unregisters, NotCaller
<1>8. CASE ReceiveBrowser(c)
  BY <1>8, <1>f DEF ReceiveBrowser, BrowserCallFails, RegistryStep, Drops, NotCaller
<1>9. CASE ReceiveTarget(c)
  BY <1>9, <1>f DEF ReceiveTarget, Return, RegistryStep, Drops, NotCaller
<1>10. CASE LastPoll(c)
  BY <1>10 DEF LastPoll, NotCaller, RegistryStep, Quiet
<1>11. CASE TimeOut(c)
  BY <1>11, <1>f DEF TimeOut, BrowserCallFails, Return, RegistryStep, Drops, NotCaller
<1>12. QED
  BY <1>1, <1>2, <1>3, <1>4, <1>5, <1>6, <1>7, <1>8, <1>9, <1>10, <1>11 DEF CallerStep

LEMMA LoopRegistryStep ==
  ASSUME TypeOK, LoopStep
  PROVE  RegistryStep /\ (loop' \in Early => loop \in Early)
<1>t. TailOrder.break = "shutdown" /\ TailOrder.shutdown = "close"
      /\ TailOrder.close = "cancel" /\ TailOrder.cancel = "clear" /\ TailOrder.clear = "done"
  BY DEF TailOrder
<1>1. CASE LoopResolvesCall
  <2> DEFINE answer == Head(msgs)
             entry  == CHOOSE e \in calls : e.id = answer.id
  <2>1. answer \in Answer
    <3>1. Takes("answer")
      BY <1>1 DEF LoopResolvesCall
    <3>2. answer \in Message
      BY <3>1, QueueTail DEF Takes, TypeOK, Message
    <3> QED
      BY <3>1, <3>2, MarkedAnswer DEF Takes
  <2>2. Registered(answer.id) => entry \in calls /\ entry.id = answer.id
    BY DEF Registered
  <2>3. loop = "recv"
    BY <1>1 DEF LoopResolvesCall, Takes
  <2>4. loop \in Early
    BY <2>3 DEF Early
  <2>5. CASE UNCHANGED <<calls, inbox>>
    BY <1>1, <2>4, <2>5 DEF LoopResolvesCall, NotLoop, RegistryStep, Quiet
  <2>6. CASE /\ Registered(answer.id) /\ calls' = Removed(answer.id)
             /\ \/ /\ callId[entry.rx] = answer.id
                   /\ inbox' = [inbox EXCEPT ![entry.rx] = Append(@, answer)]
                \/ callId[entry.rx] # answer.id /\ UNCHANGED inbox
    <3>1. UNCHANGED <<nextId, callId>>
      BY <1>1 DEF LoopResolvesCall, NotLoop
    <3>2. entry \in calls /\ entry.id = answer.id
      BY <2>2, <2>6
    <3> HIDE DEF entry, answer
    <3>3. Resolves
      BY <2>1, <2>3, <2>6, <3>1, <3>2 DEF Resolves
    <3>4. QED BY <2>4, <3>3 DEF RegistryStep
  <2>7. QED
    BY <1>1, <2>5, <2>6 DEF LoopResolvesCall
<1>2. CASE LoopChecksShutdown
  BY <1>2 DEF LoopChecksShutdown, NotLoop, RegistryStep, Quiet, Early
<1>3. CASE LoopHearsNothing
  BY <1>3 DEF LoopHearsNothing, NotLoop, RegistryStep, Quiet, Early
<1>4. CASE LoopHearsShutdown
  BY <1>4 DEF LoopHearsShutdown, Takes, NotLoop, RegistryStep, Quiet, Early
<1>5. CASE LoopRoutesEvent
  BY <1>5 DEF LoopRoutesEvent, Takes, NotLoop, RegistryStep, Quiet, Early
<1>6. CASE TailShutsConnection
  BY <1>6 DEF TailShutsConnection, NotLoop, RegistryStep, Quiet, Early
<1>7. CASE TailClosesFlag
  BY <1>7 DEF TailClosesFlag, NotLoop, RegistryStep, Quiet, Early
<1>8. CASE TailCancelsCalls
  BY <1>8, <1>t
     DEF TailCancelsCalls, LoopPanics, NotLoop, RegistryStep, Quiet, Cancels, Early
<1>9. CASE TailClearsListeners
  BY <1>9, <1>t DEF TailClearsListeners, NotLoop, RegistryStep, Quiet, Early
<1>10. QED
  BY <1>1, <1>2, <1>3, <1>4, <1>5, <1>6, <1>7, <1>8, <1>9 DEF LoopStep

LEMMA NextRegistryStep ==
  ASSUME TypeOK, Shape, [Next]_vars
  PROVE  RegistryStep /\ (loop' \in Early => loop \in Early)
<1>1. CASE UNCHANGED vars
  BY <1>1 DEF vars, callerVars, RegistryStep, Quiet
<1>2. CASE Environment
  BY <1>2 DEF Environment, ShutdownSocket, ShutdownSignal, Listen, ReceiverEnds, NotApp,
              callerVars, WsCloses, WsPanics, WsForwardsEvent, WsForwardsAnswer, NotWs,
              RegistryStep, Quiet
<1>3. QED
  BY <1>1, <1>2, NextCases, LoopRegistryStep, CallerRegistryStep

-----------------------------------------------------------------------------
(* Each kind of step keeps the registry invariant.                         *)

LEMMA KeepIds ==
  ASSUME TypeOK, RegistryInv, RegistryStep
  PROVE  IdsBelowNext' /\ IdsDistinct' /\ EntriesMatch'
<1> USE NoneIsNoId DEF RegistryInv, IdsBelowNext, IdsDistinct, EntriesMatch
<1>0. /\ nextId \in Nat /\ callId \in [Frames -> Nat \cup {None}]
      /\ calls \in SUBSET [id : Nat, rx : Frames]
  BY DEF TypeOK
<1>1. CASE Quiet
  BY <1>1 DEF Quiet
<1>2. CASE Registers
  <2>1. PICK f \in Frames : callId[f] = None /\ RegisterCall(f)
    BY <1>2 DEF Registers
  <2>2. \A g \in Frames : callId'[g] = IF g = f THEN nextId ELSE callId[g]
    BY <1>0, <2>1 DEF RegisterCall
  <2>3. nextId' = nextId + 1 /\ \A e \in calls' : e \in calls \/ (e.id = nextId /\ e.rx = f)
    BY <2>1 DEF RegisterCall, Removed
  <2>4. \A g \in Frames : callId[g] # None => callId[g] \in Nat /\ callId[g] # nextId
    BY <1>0
  <2>5. \A e \in calls : e.id \in Nat /\ e.id # nextId
    BY <1>0
  <2>6. IdsBelowNext'
    <3>1. \A g \in Frames : callId'[g] # None => callId'[g] < nextId'
      BY <1>0, <2>2, <2>3, <2>4
    <3>2. \A e \in calls' : e.id < nextId'
      BY <1>0, <2>3, <2>5
    <3>3. QED BY <3>1, <3>2
  <2>7. IdsDistinct'
    BY <2>2, <2>4
  <2>8. EntriesMatch'
    <3>1. SUFFICES ASSUME NEW e \in calls', NEW g \in Frames, callId'[g] = e.id
                   PROVE  e.rx = g
      OBVIOUS
    <3>2. CASE e \in calls
      BY <2>2, <2>5, <3>1, <3>2
    <3>3. CASE e.id = nextId /\ e.rx = f
      BY <1>0, <2>2, <2>4, <3>1, <3>3
    <3>4. QED BY <2>3, <3>2, <3>3
  <2>9. QED BY <2>6, <2>7, <2>8
<1>3. ASSUME NEW S, DropReceivers(S), calls' \subseteq calls, UNCHANGED nextId
      PROVE  IdsBelowNext' /\ IdsDistinct' /\ EntriesMatch'
  <2>1. \A g \in Frames : callId'[g] = IF g \in S THEN None ELSE callId[g]
    BY <1>3 DEF DropReceivers
  <2>2. \A e \in calls : e.id # None
    BY <1>0
  <2>3. QED BY <1>3, <2>1, <2>2
<1>4. CASE Drops
  BY <1>3, <1>4 DEF Drops
<1>5. CASE Unregisters
  BY <1>3, <1>5 DEF Unregisters, Removed
<1>6. CASE Resolves
  BY <1>6 DEF Resolves, Removed
<1>7. CASE Cancels
  BY <1>7 DEF Cancels, CancelOutstandingMethodCalls
<1>8. QED
  BY <1>1, <1>2, <1>4, <1>5, <1>6, <1>7 DEF RegistryStep

LEMMA KeepCovered ==
  ASSUME TypeOK, RegistryInv, RegistryStep
  PROVE  Covered'
<1> USE DEF Covered, Answered
<1>0. /\ nextId \in Nat /\ callId \in [Frames -> Nat \cup {None}]
      /\ calls \in SUBSET [id : Nat, rx : Frames]
      /\ inbox \in [Frames -> Seq(Answer \cup {Closed})]
      /\ Covered
  BY DEF TypeOK, RegistryInv
<1>1. CASE Quiet
  BY <1>0, <1>1 DEF Quiet
<1>2. CASE Registers
  <2>1. PICK f \in Frames : RegisterCall(f) /\ UNCHANGED inbox
    BY <1>2 DEF Registers
  <2>2. \A g \in Frames : callId'[g] = IF g = f THEN nextId ELSE callId[g]
    BY <1>0, <2>1 DEF RegisterCall
  <2>3. [id |-> nextId, rx |-> f] \in calls' /\ \A e \in calls : e.id # nextId => e \in calls'
    BY <2>1 DEF RegisterCall, Removed
  <2>4. \A e \in calls : e.id # nextId
    BY <1>0 DEF RegistryInv, IdsBelowNext
  <2>5. QED BY <1>0, <2>1, <2>2, <2>3, <2>4
<1>3. CASE Drops
  BY <1>0, <1>3 DEF Drops, DropReceivers
<1>4. CASE Unregisters
  <2>1. PICK f \in Frames, S \in SUBSET Frames :
          f \in S /\ callId[f] # None /\ calls' = Removed(callId[f]) /\ DropReceivers(S)
    BY <1>4 DEF Unregisters
  <2>2. \A g \in Frames : /\ callId'[g] = IF g \in S THEN None ELSE callId[g]
                          /\ inbox'[g] = IF g \in S THEN <<>> ELSE inbox[g]
    BY <2>1 DEF DropReceivers
  <2>3. \A g \in Frames \ S : callId[g] # None => callId[g] # callId[f]
    BY <2>1 DEF RegistryInv, IdsDistinct
  <2>4. \A e \in calls : e.id # callId[f] => e \in calls'
    BY <2>1 DEF Removed
  <2>5. QED BY <1>0, <2>2, <2>3, <2>4
<1>5. CASE Resolves
  <2>1. PICK e \in calls, a \in Answer :
          /\ calls' = Removed(e.id)
          /\ \/ callId[e.rx] = e.id /\ inbox' = [inbox EXCEPT ![e.rx] = Append(@, a)]
             \/ callId[e.rx] # e.id /\ UNCHANGED inbox
    BY <1>5 DEF Resolves
  <2>2. UNCHANGED callId
    BY <1>5 DEF Resolves
  <2>3. SUFFICES ASSUME NEW f \in Frames, callId[f] # None
                 PROVE  inbox'[f] # <<>> \/ [id |-> callId[f], rx |-> f] \in calls'
    BY <2>2
  <2>4. CASE callId[f] = e.id
    <3>1. e.rx = f
      BY <2>4 DEF RegistryInv, EntriesMatch
    <3>2. inbox'[f] = Append(inbox[f], a)
      BY <1>0, <2>1, <2>4, <3>1
    <3>3. inbox[f] \in Seq(Answer \cup {Closed}) /\ a \in Answer \cup {Closed}
      BY <1>0
    <3>4. QED BY <3>2, <3>3
  <2>5. CASE callId[f] # e.id
    <3>1. inbox[f] # <<>> \/ [id |-> callId[f], rx |-> f] \in calls'
      <4> DEFINE own == [id |-> callId[f], rx |-> f]
      <4>1. own.id # e.id
        BY <2>5
      <4>2. inbox[f] # <<>> \/ own \in calls
        BY <1>0, <2>3
      <4>3. own \in calls => own \in calls'
        BY <2>1, <4>1 DEF Removed
      <4>4. QED BY <4>2, <4>3
    <3>2. inbox[f] # <<>> => inbox'[f] # <<>>
      <4>1. inbox[f] \in Seq(Answer \cup {Closed}) /\ a \in Answer \cup {Closed}
        BY <1>0
      <4>2. inbox'[f] = inbox[f] \/ inbox'[f] = Append(inbox[f], a)
        BY <1>0, <2>1
      <4>3. QED BY <4>1, <4>2
    <3>3. QED BY <3>1, <3>2
  <2>6. QED BY <2>4, <2>5
<1>6. CASE Cancels
  <2>1. SUFFICES ASSUME NEW f \in Frames, callId[f] # None
                 PROVE  inbox'[f] # <<>> \/ [id |-> callId[f], rx |-> f] \in calls'
    BY <1>6 DEF Cancels
  <2>2. inbox[f] \in Seq(Answer \cup {Closed}) /\ Closed \in Answer \cup {Closed}
    BY <1>0
  <2>3. inbox'[f] = inbox[f] \/ inbox'[f] = Append(inbox[f], Closed)
    BY <1>6 DEF Cancels, CancelOutstandingMethodCalls
  <2>4. UNCHANGED calls
    BY <1>6 DEF Cancels, CancelOutstandingMethodCalls
  <2>5. QED BY <1>0, <2>1, <2>2, <2>3, <2>4
<1>7. QED
  BY <1>1, <1>2, <1>3, <1>4, <1>5, <1>6 DEF RegistryStep

LEMMA KeepReplies ==
  ASSUME TypeOK, RegistryInv, RegistryStep, loop' \in Early => loop \in Early
  PROVE  Replies'
<1> USE DEF Answered
<1>0. /\ nextId \in Nat /\ callId \in [Frames -> Nat \cup {None}]
      /\ calls \in SUBSET [id : Nat, rx : Frames]
      /\ inbox \in [Frames -> Seq(Answer \cup {Closed})]
      /\ Replies
  BY DEF TypeOK, RegistryInv
<1>r. \A f \in Frames : Len(inbox[f]) <= 1
  BY <1>0 DEF Replies
<1>d. ASSUME NEW S, DropReceivers(S), calls' \subseteq calls PROVE Replies'
  <2>1. \A g \in Frames : /\ callId'[g] = IF g \in S THEN None ELSE callId[g]
                          /\ inbox'[g] = IF g \in S THEN <<>> ELSE inbox[g]
    BY <1>d DEF DropReceivers
  <2>2. Len(<<>>) = 0
    OBVIOUS
  <2>3. QED BY <1>0, <1>d, <2>1, <2>2 DEF Replies
<1>1. CASE Quiet
  BY <1>0, <1>1 DEF Quiet, Replies
<1>2. CASE Registers
  <2>1. PICK f \in Frames : callId[f] = None /\ RegisterCall(f) /\ UNCHANGED inbox
    BY <1>2 DEF Registers
  <2>2. \A g \in Frames : callId'[g] = IF g = f THEN nextId ELSE callId[g]
    BY <1>0, <2>1 DEF RegisterCall
  <2>3. inbox[f] = <<>>
    BY <1>0, <2>1 DEF Replies
  <2>4. calls' \subseteq calls \cup {[id |-> nextId, rx |-> f]}
    BY <2>1 DEF RegisterCall, Removed
  <2>5. ASSUME loop' \in Early, NEW g \in Frames, inbox'[g] # <<>>
        PROVE  [id |-> callId'[g], rx |-> g] \notin calls'
    <3>1. g # f /\ inbox[g] # <<>>
      BY <2>1, <2>3, <2>5
    <3>2. [id |-> callId[g], rx |-> g] \notin calls
      BY <1>0, <2>5, <3>1 DEF Replies
    <3>3. [id |-> callId[g], rx |-> g].rx # [id |-> nextId, rx |-> f].rx
      BY <3>1
    <3>4. QED BY <2>2, <2>4, <3>1, <3>2, <3>3
  <2>6. \A g \in Frames : callId'[g] = None => inbox'[g] = <<>>
    BY <1>0, <2>1, <2>2, <2>3 DEF Replies
  <2>7. QED BY <1>0, <2>1, <2>5, <2>6 DEF Replies
<1>3. CASE Drops
  BY <1>d, <1>3 DEF Drops
<1>4. CASE Unregisters
  BY <1>d, <1>4 DEF Unregisters, Removed
<1>5. CASE Resolves
  <2>1. PICK e \in calls, a \in Answer :
          /\ calls' = Removed(e.id)
          /\ \/ callId[e.rx] = e.id /\ inbox' = [inbox EXCEPT ![e.rx] = Append(@, a)]
             \/ callId[e.rx] # e.id /\ UNCHANGED inbox
    BY <1>5 DEF Resolves
  <2>2. UNCHANGED callId /\ loop \in Early /\ calls' \subseteq calls
    BY <1>5, <2>1 DEF Resolves, Early, Removed
  <2>3. CASE UNCHANGED inbox
    BY <1>0, <2>2, <2>3 DEF Replies
  <2>4. CASE callId[e.rx] = e.id /\ inbox' = [inbox EXCEPT ![e.rx] = Append(@, a)]
    <3> DEFINE f == e.rx
    <3>1. e.rx \in Frames /\ e.id \in Nat /\ e = [id |-> e.id, rx |-> e.rx]
      BY <1>0
    <3>2. inbox[f] = <<>>
      BY <1>0, <2>2, <2>4, <3>1 DEF Replies
    <3>3. /\ inbox'[f] = Append(<<>>, a)
          /\ \A g \in Frames \ {f} : inbox'[g] = inbox[g]
      BY <1>0, <2>4, <3>1, <3>2
    <3>4. Len(Append(<<>>, a)) = 1
      OBVIOUS
    <3>5. [id |-> callId[f], rx |-> f].id = e.id
      BY <2>4
    <3>6. [id |-> callId[f], rx |-> f] \notin calls'
      BY <2>1, <3>5 DEF Removed
    <3>7. callId[f] # None
      BY <2>4, <3>1, NoneIsNoId
    <3> HIDE DEF f
    <3>8. \A g \in Frames : callId'[g] = None => inbox'[g] = <<>>
      BY <1>0, <2>2, <3>3, <3>7 DEF Replies
    <3>9. ASSUME NEW g \in Frames PROVE Len(inbox'[g]) <= 1
      <4>1. CASE g = f
        <5>1. Len(inbox'[g]) = 1
          BY <3>3, <3>4, <4>1
        <5>2. QED BY <5>1
      <4>2. CASE g # f
        BY <1>r, <3>3, <4>2
      <4>3. QED BY <4>1, <4>2
    <3>10. \A g \in Frames : inbox'[g] # <<>> => [id |-> callId'[g], rx |-> g] \notin calls'
      BY <1>0, <2>2, <3>3, <3>6 DEF Replies
    <3>11. QED BY <3>8, <3>9, <3>10 DEF Replies
  <2>5. QED BY <2>1, <2>3, <2>4
<1>6. CASE Cancels
  <2>1. UNCHANGED <<callId, calls>> /\ loop \in Early /\ loop' \notin Early
    BY <1>6 DEF Cancels, CancelOutstandingMethodCalls, Early
  <2>2. \A f \in Frames :
          inbox'[f] = IF \E e \in calls : e.rx = f /\ e.id = callId[f]
                      THEN Append(inbox[f], Closed) ELSE inbox[f]
    BY <1>6 DEF Cancels, CancelOutstandingMethodCalls
  <2>3. \A e \in calls : e = [id |-> e.id, rx |-> e.rx] /\ e.id # None
    BY <1>0, NoneIsNoId
  <2>4. ASSUME NEW f \in Frames, NEW e \in calls, e.rx = f, e.id = callId[f]
        PROVE  callId[f] # None /\ inbox[f] = <<>> /\ Len(Append(inbox[f], Closed)) = 1
    <3>1. e = [id |-> callId[f], rx |-> f] /\ e.id # None
      BY <2>3, <2>4
    <3>2. inbox[f] = <<>>
      BY <1>0, <2>1, <3>1 DEF Replies
    <3>3. QED BY <2>4, <3>1, <3>2
  <2>5. \A f \in Frames : callId'[f] = None => inbox'[f] = <<>>
    BY <1>0, <2>1, <2>2, <2>4 DEF Replies
  <2>6. ASSUME NEW f \in Frames PROVE Len(inbox'[f]) <= 1
    <3>1. CASE \E e \in calls : e.rx = f /\ e.id = callId[f]
      <4>1. Len(Append(inbox[f], Closed)) = 1
        BY <2>4, <3>1
      <4>2. inbox'[f] = Append(inbox[f], Closed)
        BY <2>2, <3>1
      <4>3. Len(inbox'[f]) = 1
        BY <4>1, <4>2
      <4>4. QED BY <4>3
    <3>2. CASE ~ \E e \in calls : e.rx = f /\ e.id = callId[f]
      <4>1. inbox'[f] = inbox[f]
        BY <2>2, <3>2
      <4>2. QED BY <1>r, <4>1
    <3>3. QED BY <3>1, <3>2
  <2>7. QED BY <2>1, <2>5, <2>6 DEF Replies
<1>7. QED
  BY <1>1, <1>2, <1>3, <1>4, <1>5, <1>6 DEF RegistryStep
-----------------------------------------------------------------------------
(* Which frames have an id follows the callers, whose own steps are the    *)
(* only ones to touch pc and callId.                                       *)

LEMMA ShapeCaller ==
  ASSUME TypeOK, Shape, NEW c \in Callers,
         CallerStep(c) \/ \E d \in {"target", "browser"} : StartCall(c, d)
  PROVE  Shape'
<1>0. /\ nextId \in Nat /\ nextId # None
      /\ callId \in [Frames -> Nat \cup {None}] /\ pc \in [Callers -> CallerPCs]
  BY NoneIsNoId DEF TypeOK
<1>f. \A k \in Callers : /\ T(k) \in Frames /\ B(k) \in Frames /\ T(k) # B(c) /\ B(k) # T(c)
                         /\ k # c => T(k) # T(c) /\ B(k) # B(c)
  BY DEF T, B, Frames
<1>g. ASSUME NEW label, Goto(c, label)
      PROVE  pc'[c] = label /\ \A k \in Callers \ {c} : pc'[k] = pc[k]
  BY <1>0, <1>g DEF Goto
<1>o. ASSUME \A k \in Callers \ {c} :
               pc'[k] = pc[k] /\ callId'[T(k)] = callId[T(k)] /\ callId'[B(k)] = callId[B(k)],
             /\ callId'[B(c)] # None <=> pc'[c] \in {"send", "unregister", "wait", "expired"}
             /\ pc'[c] \in {"check", "unregisterT", "waitT", "expiredT"} => callId'[T(c)] # None
             /\ pc'[c] \in {"idle", "registerT", "panicked"} => callId'[T(c)] = None
      PROVE  Shape'
  <2>1. SUFFICES ASSUME NEW k \in Callers
                 PROVE  /\ callId'[B(k)] # None <=> pc'[k] \in {"send", "unregister", "wait", "expired"}
                        /\ pc'[k] \in {"check", "unregisterT", "waitT", "expiredT"} => callId'[T(k)] # None
                        /\ pc'[k] \in {"idle", "registerT", "panicked"} => callId'[T(k)] = None
    BY DEF Shape, Nested, T, B
  <2>2. CASE k = c
    BY <1>o, <2>2
  <2>3. CASE k # c
    BY <1>o, <2>3 DEF Shape, Nested
  <2>4. QED BY <2>2, <2>3
<1>s. /\ callId[B(c)] # None <=> pc[c] \in {"send", "unregister", "wait", "expired"}
      /\ pc[c] \in {"check", "unregisterT", "waitT", "expiredT"} => callId[T(c)] # None
      /\ pc[c] \in {"idle", "registerT", "panicked"} => callId[T(c)] = None
  BY DEF Shape, Nested
<1>d. ASSUME NEW S \in {{T(c), B(c)}, {B(c)}}, DropReceivers(S)
      PROVE  /\ \A k \in Callers \ {c} :
                  callId'[T(k)] = callId[T(k)] /\ callId'[B(k)] = callId[B(k)]
             /\ callId'[B(c)] = None
             /\ callId'[T(c)] = IF T(c) \in S THEN None ELSE callId[T(c)]
  BY <1>d, <1>f DEF DropReceivers
<1>b. BrowserCallFails(c) => Shape'
  <2>1. SUFFICES ASSUME BrowserCallFails(c) PROVE Shape'
    OBVIOUS
  <2>2. callId'[T(c)] = callId[T(c)]
    BY <1>d, <1>f, <2>1 DEF BrowserCallFails
  <2>3. QED
    BY <1>o, <1>d, <1>g, <2>1, <2>2 DEF BrowserCallFails, Nested
<1>r. Return(c) => Shape'
  BY <1>o, <1>d, <1>g DEF Return
<1>p. CallerPanics(c) => Shape'
  BY <1>o, <1>d, <1>g DEF CallerPanics
<1>u. ASSUME UNCHANGED callId, NEW label, Goto(c, label),
             /\ label \in {"send", "unregister", "wait", "expired"}
                  <=> pc[c] \in {"send", "unregister", "wait", "expired"}
             /\ label \in {"check", "unregisterT", "waitT", "expiredT"} => callId[T(c)] # None
             /\ label \in {"idle", "registerT", "panicked"} => callId[T(c)] = None
      PROVE  Shape'
  BY <1>o, <1>g, <1>s, <1>u
<1>1. ASSUME NEW d \in {"target", "browser"}, StartCall(c, d) PROVE Shape'
  BY <1>1, <1>s, <1>u DEF StartCall
<1>2. CASE RegisterTarget(c)
  <2>1. CASE CallerPanics(c)
    BY <1>p, <2>1
  <2>2. CASE RegisterCall(T(c)) /\ Goto(c, "check")
    <3>1. callId'[T(c)] = nextId /\ callId'[B(c)] = callId[B(c)] /\ \A k \in Callers \ {c} :
            callId'[T(k)] = callId[T(k)] /\ callId'[B(k)] = callId[B(k)]
      BY <1>0, <1>f, <2>2 DEF RegisterCall
    <3>2. pc[c] = "registerT"
      BY <1>2 DEF RegisterTarget, Register
    <3>3. QED BY <1>0, <1>o, <1>g, <1>s, <2>2, <3>1, <3>2
  <2>3. QED BY <1>2, <2>1, <2>2 DEF RegisterTarget, Register
<1>3. CASE RegisterBrowser(c)
  <2>1. CASE CallerPanics(c)
    BY <1>p, <2>1
  <2>2. CASE RegisterCall(B(c)) /\ Goto(c, "send")
    <3>1. callId'[B(c)] = nextId /\ callId'[T(c)] = callId[T(c)] /\ \A k \in Callers \ {c} :
            callId'[T(k)] = callId[T(k)] /\ callId'[B(k)] = callId[B(k)]
      BY <1>0, <1>f, <2>2 DEF RegisterCall
    <3>2. QED BY <1>0, <1>o, <1>g, <1>s, <2>2, <3>1
  <2>3. QED BY <1>3, <2>1, <2>2 DEF RegisterBrowser, Register
<1>4. CASE CheckNested(c)
  BY <1>4, <1>s, <1>u DEF CheckNested
<1>5. CASE Send(c)
  BY <1>5, <1>s, <1>u DEF Send
<1>6. CASE Unregister(c)
  BY <1>6, <1>b, <1>p DEF Unregister
<1>7. CASE UnregisterTarget(c)
  BY <1>7, <1>r, <1>p DEF UnregisterTarget
<1>8. CASE ReceiveBrowser(c)
  <2>1. CASE BrowserCallFails(c)
    BY <1>b, <2>1
  <2>2. CASE Goto(c, IF Nested(c) THEN "waitT" ELSE "idle") /\ DropReceivers({B(c)})
    <3>1. callId'[T(c)] = callId[T(c)]
      BY <1>d, <1>f, <2>2
    <3>2. QED
      BY <1>o, <1>d, <1>g, <2>2, <3>1 DEF Nested
  <2>3. QED BY <1>8, <2>1, <2>2 DEF ReceiveBrowser
<1>9. CASE ReceiveTarget(c)
  BY <1>9, <1>r DEF ReceiveTarget
<1>10. CASE LastPoll(c)
  BY <1>10, <1>s, <1>u DEF LastPoll
<1>11. CASE TimeOut(c)
  BY <1>11, <1>b, <1>r DEF TimeOut
<1>12. QED
  BY <1>1, <1>2, <1>3, <1>4, <1>5, <1>6, <1>7, <1>8, <1>9, <1>10, <1>11 DEF CallerStep

(* The threads of Chrome, the application and the loop leave pc, made and  *)
(* callId alone.                                                           *)
LEMMA ShapeNext ==
  ASSUME TypeOK, Shape, [Next]_vars
  PROVE  Shape'
<1>1. CASE UNCHANGED <<pc, callId>>
  BY <1>1 DEF Shape, Nested
<1>2. UNCHANGED vars => UNCHANGED <<pc, callId>>
  BY DEF vars, callerVars
<1>3. Environment => UNCHANGED <<pc, callId>>
  BY DEF Environment, ShutdownSocket, ShutdownSignal, Listen, ReceiverEnds, NotApp,
         callerVars, WsCloses, WsPanics, WsForwardsEvent, WsForwardsAnswer, NotWs
<1>4. LoopStep => UNCHANGED <<pc, callId>>
  BY DEF LoopStep, LoopChecksShutdown, LoopHearsNothing, LoopHearsShutdown,
         LoopResolvesCall, LoopRoutesEvent, TailShutsConnection, TailClosesFlag,
         TailCancelsCalls, TailClearsListeners, NotLoop
<1>5. QED
  BY <1>1, <1>2, <1>3, <1>4, NextCases, ShapeCaller

LEMMA RegistryInit == Init => RegistryInv
BY DEF Init, RegistryInv, IdsBelowNext, IdsDistinct, EntriesMatch, Covered, Replies

LEMMA TypeNext ==
  ASSUME TypeOK, Shape, [Next]_vars
  PROVE  TypeOK'
<1>1. CASE UNCHANGED vars
  BY <1>1 DEF vars, callerVars, routeVars, chromeVars, TypeOK
<1>2. QED
  BY <1>1, NextCases, TypeCaller, TypeLoop, TypeEnvironment

-----------------------------------------------------------------------------
(* The order of the tail: the socket is closed before `open` is cleared,   *)
(* and both before the calls are cancelled, so that whoever still polls    *)
(* after the cancellation was registered before it.                        *)

SocketInv ==
  /\ ~open => socket = "closed"
  /\ loop \in {"close", "cancel", "clear", "done"} => socket = "closed"

TailInv ==
  loop \in {"clear", "done"} => \A c \in Callers :
    /\ pc[c] = "wait" => Answered(B(c)) /\ (Nested(c) => Answered(T(c)))
    /\ pc[c] = "waitT" => Answered(T(c))

LEMMA SocketNext ==
  ASSUME TypeOK, SocketInv, [Next]_vars
  PROVE  SocketInv'
<1> USE DEF SocketInv
<1>t. TailOrder.break = "shutdown" /\ TailOrder.shutdown = "close"
      /\ TailOrder.close = "cancel" /\ TailOrder.cancel = "clear" /\ TailOrder.clear = "done"
  BY DEF TailOrder
<1>1. CASE UNCHANGED <<open, socket, loop>>
  BY <1>1
<1>2. UNCHANGED vars => UNCHANGED <<open, socket, loop>>
  BY DEF vars
<1>3. ASSUME NEW c \in Callers,
             CallerStep(c) \/ \E d \in {"target", "browser"} : StartCall(c, d)
      PROVE  UNCHANGED <<open, socket, loop>>
  BY <1>3 DEF CallerStep, StartCall, RegisterTarget, RegisterBrowser, Register, CheckNested,
              Send, Unregister, UnregisterTarget, ReceiveBrowser, ReceiveTarget, LastPoll,
              TimeOut, NotCaller
<1>4. CASE Environment
  <2>1. UNCHANGED <<open, loop>> /\ (socket = "closed" => socket' = "closed")
    BY <1>4 DEF Environment, ShutdownSocket, ShutdownSignal, Listen, ReceiverEnds, NotApp,
                WsCloses, WsPanics, WsForwardsEvent, WsForwardsAnswer, NotWs
  <2>2. QED BY <2>1
<1>5. CASE LoopStep
  BY <1>5, <1>t
     DEF LoopStep, LoopChecksShutdown, LoopHearsNothing, LoopHearsShutdown,
         LoopResolvesCall, LoopRoutesEvent, TailShutsConnection, TailClosesFlag,
         TailCancelsCalls, TailClearsListeners, Takes, Continue, Break, LoopPanics
<1>6. QED
  BY <1>1, <1>2, <1>3, <1>4, <1>5, NextCases

(* A caller's step touches its own frames only, and starts to poll only    *)
(* after a successful send.                                                *)
LEMMA TailCaller ==
  ASSUME TypeOK, Shape, SocketInv, TailInv, loop \in {"clear", "done"},
         NEW c \in Callers,
         CallerStep(c) \/ \E d \in {"target", "browser"} : StartCall(c, d)
  PROVE  TailInv'
<1>0. socket = "closed" /\ pc \in [Callers -> CallerPCs]
  BY DEF SocketInv, TypeOK
<1>f. \A k \in Callers : /\ T(k) \in Frames /\ B(k) \in Frames /\ T(k) # B(c) /\ B(k) # T(c)
                         /\ k # c => T(k) # T(c) /\ B(k) # B(c)
  BY DEF T, B, Frames
<1>o. ASSUME \A k \in Callers \ {c} :
               /\ pc'[k] = pc[k]
               /\ callId[T(k)] = None => callId'[T(k)] = None
               /\ inbox'[T(k)] = inbox[T(k)] /\ inbox'[B(k)] = inbox[B(k)],
             pc'[c] # "wait",
             pc'[c] = "waitT" => inbox'[T(c)] # <<>>
      PROVE  TailInv'
  BY <1>o DEF TailInv, Nested, Answered, T, B
<1>g. ASSUME NEW label, Goto(c, label)
      PROVE  pc'[c] = label /\ \A k \in Callers \ {c} : pc'[k] = pc[k]
  BY <1>0, <1>g DEF Goto
<1>d. ASSUME NEW S \in {{T(c), B(c)}, {B(c)}}, DropReceivers(S)
      PROVE  /\ \A k \in Callers \ {c} :
                  /\ callId'[T(k)] = callId[T(k)]
                  /\ inbox'[T(k)] = inbox[T(k)] /\ inbox'[B(k)] = inbox[B(k)]
             /\ inbox'[T(c)] = IF T(c) \in S THEN <<>> ELSE inbox[T(c)]
  BY <1>d, <1>f DEF DropReceivers
<1>u. ASSUME UNCHANGED <<callId, inbox>>, NEW label, label \notin {"wait", "waitT"}, Goto(c, label)
      PROVE  TailInv'
  BY <1>o, <1>g, <1>u
<1>q. ASSUME NEW S \in {{T(c), B(c)}, {B(c)}}, DropReceivers(S),
             NEW label, label \notin {"wait", "waitT"}, Goto(c, label)
      PROVE  TailInv'
  BY <1>o, <1>g, <1>d, <1>q
<1>b. BrowserCallFails(c) => TailInv'
  BY <1>q DEF BrowserCallFails
<1>r. Return(c) => TailInv'
  BY <1>q DEF Return
<1>p. CallerPanics(c) => TailInv'
  BY <1>q DEF CallerPanics
<1>e. ASSUME NEW f \in {T(c), B(c)}, RegisterCall(f), UNCHANGED inbox,
             NEW label, label \notin {"wait", "waitT"}, Goto(c, label)
      PROVE  TailInv'
  <2>1. \A k \in Callers \ {c} : callId'[T(k)] = callId[T(k)]
    BY <1>e, <1>f DEF RegisterCall, TypeOK
  <2>2. QED BY <1>o, <1>g, <1>e, <2>1
<1>1. ASSUME NEW d \in {"target", "browser"}, StartCall(c, d) PROVE TailInv'
  BY <1>1, <1>u DEF StartCall
<1>2. CASE RegisterTarget(c)
  BY <1>2, <1>e, <1>p DEF RegisterTarget, Register
<1>3. CASE RegisterBrowser(c)
  BY <1>3, <1>e, <1>p DEF RegisterBrowser, Register
<1>4. CASE CheckNested(c)
  BY <1>4, <1>u DEF CheckNested
<1>5. CASE Send(c)
  BY <1>0, <1>5, <1>u DEF Send
<1>6. CASE Unregister(c)
  BY <1>6, <1>b, <1>p DEF Unregister
<1>7. CASE UnregisterTarget(c)
  BY <1>7, <1>r, <1>p DEF UnregisterTarget
<1>8. CASE ReceiveBrowser(c)
  <2>1. CASE BrowserCallFails(c)
    BY <1>b, <2>1
  <2>2. CASE Goto(c, IF Nested(c) THEN "waitT" ELSE "idle") /\ DropReceivers({B(c)})
    <3>1. Nested(c) => inbox[T(c)] # <<>>
      BY <1>8 DEF ReceiveBrowser, TailInv, Answered
    <3>2. inbox'[T(c)] = inbox[T(c)]
      BY <1>d, <1>f, <2>2
    <3>3. QED BY <1>o, <1>d, <1>g, <2>2, <3>1, <3>2
  <2>3. QED BY <1>8, <2>1, <2>2 DEF ReceiveBrowser
<1>9. CASE ReceiveTarget(c)
  BY <1>9, <1>r DEF ReceiveTarget
<1>10. CASE LastPoll(c)
  BY <1>10, <1>u DEF LastPoll
<1>11. CASE TimeOut(c)
  BY <1>11, <1>b, <1>r DEF TimeOut
<1>12. QED
  BY <1>1, <1>2, <1>3, <1>4, <1>5, <1>6, <1>7, <1>8, <1>9, <1>10, <1>11 DEF CallerStep

(* The cancellation answers every frame that waits or will wait.           *)
LEMMA TailCancels ==
  ASSUME TypeOK, Shape, RegistryInv, TailCancelsCalls
  PROVE  TailInv'
<1>1. CASE LoopPanics("calls")
  BY <1>1 DEF LoopPanics, TailInv
<1>2. CASE CancelOutstandingMethodCalls
  <2>1. UNCHANGED <<pc, callId>>
    BY DEF TailCancelsCalls, NotLoop
  <2>2. ASSUME NEW f \in Frames, callId[f] # None PROVE inbox'[f] # <<>>
    <3>1. inbox[f] \in Seq(Answer \cup {Closed}) /\ Closed \in Answer \cup {Closed}
      BY DEF TypeOK
    <3>2. inbox[f] # <<>> \/ [id |-> callId[f], rx |-> f] \in calls
      BY <2>2 DEF RegistryInv, Covered, Answered
    <3>3. inbox'[f] = IF \E e \in calls : e.rx = f /\ e.id = callId[f]
                      THEN Append(inbox[f], Closed) ELSE inbox[f]
      BY <1>2 DEF CancelOutstandingMethodCalls
    <3>4. Append(inbox[f], Closed) # <<>>
      BY <3>1
    <3>5. QED BY <3>2, <3>3, <3>4
  <2>3. QED
    BY <2>1, <2>2, FrameFacts DEF TailInv, Shape, Nested, Answered
<1>3. QED
  BY <1>1, <1>2 DEF TailCancelsCalls

LEMMA TailNext ==
  ASSUME TypeOK, Shape, RegistryInv, SocketInv, TailInv, [Next]_vars
  PROVE  TailInv'
<1>1. CASE UNCHANGED <<pc, callId, inbox>> /\ (loop' \in {"clear", "done"} => loop \in {"clear", "done"})
  BY <1>1 DEF TailInv, Nested, Answered
<1>2. CASE UNCHANGED vars
  BY <1>1, <1>2 DEF vars, callerVars
<1>3. CASE Environment
  BY <1>1, <1>3 DEF Environment, ShutdownSocket, ShutdownSignal, Listen, ReceiverEnds,
     NotApp, callerVars, WsCloses, WsPanics, WsForwardsEvent, WsForwardsAnswer, NotWs
<1>4. ASSUME NEW c \in Callers,
             CallerStep(c) \/ \E d \in {"target", "browser"} : StartCall(c, d)
      PROVE  TailInv'
  <2>1. CASE loop \in {"clear", "done"}
    BY <1>4, <2>1, TailCaller
  <2>2. CASE loop \notin {"clear", "done"}
    BY <1>4, <2>2, CallerRegistryStep DEF TailInv
  <2>3. QED BY <2>1, <2>2
<1>5. CASE LoopStep
  <2>t. TailOrder.break = "shutdown" /\ TailOrder.shutdown = "close"
        /\ TailOrder.close = "cancel" /\ TailOrder.cancel = "clear" /\ TailOrder.clear = "done"
    BY DEF TailOrder
  <2>1. CASE TailCancelsCalls
    BY <2>1, TailCancels
  <2>2. CASE TailClearsListeners
    BY <1>1, <2>2 DEF TailClearsListeners, NotLoop
  <2>3. CASE \/ LoopChecksShutdown \/ LoopHearsNothing \/ LoopHearsShutdown
             \/ LoopResolvesCall \/ LoopRoutesEvent
             \/ TailShutsConnection \/ TailClosesFlag
    <3>1. loop' \notin {"clear", "done"}
      BY <2>3, <2>t
         DEF LoopChecksShutdown, LoopHearsNothing, LoopHearsShutdown, LoopResolvesCall,
             LoopRoutesEvent, TailShutsConnection, TailClosesFlag, Continue, Break, LoopPanics
    <3>2. QED BY <3>1 DEF TailInv
  <2>4. QED BY <1>5, <2>1, <2>2, <2>3 DEF LoopStep
<1>6. QED
  BY <1>2, <1>3, <1>4, <1>5, NextCases

-----------------------------------------------------------------------------
(* Answers belong to their frames: whoever has the id of what Chrome owes, *)
(* or of an answer on its way, is the activation that asked for it.        *)

Belongs(x) ==
  /\ x.id < nextId
  /\ \A f \in Frames : callId[f] = x.id => x.from = f /\ x.nth = made[f[1]]
WillBelong(x) ==
  /\ x.id < nextId'
  /\ \A f \in Frames : callId'[f] = x.id => x.from = f /\ x.nth = made'[f[1]]
OwnIds ==
  /\ \A r \in owed : Belongs(r)
  /\ \A i \in DOMAIN msgs : msgs[i].type = "answer" => Belongs(msgs[i])
OwnInv == OwnIds /\ OwnAnswer

(* What a step does to the ids, and to the callers' counts of calls.       *)
IdsMove ==
  /\ nextId' \in Nat /\ nextId <= nextId'
  /\ \A f \in Frames :
       \/ callId'[f] \in {None, nextId}
       \/ callId'[f] = callId[f] /\ made'[f[1]] = made[f[1]]

LEMMA FrameOwner ==
  ASSUME NEW f \in Frames
  PROVE  f[1] \in Callers /\ (f = T(f[1]) \/ f = B(f[1]))
<1>1. PICK c \in Callers, s \in {"target", "browser"} : f = <<c, s>>
  BY DEF Frames
<1>2. f[1] = c
  BY <1>1
<1>3. QED BY <1>1, <1>2 DEF T, B

LEMMA MadeMoves ==
  ASSUME TypeOK, [Next]_vars
  PROVE  \/ UNCHANGED made
         \/ \E c \in Callers : /\ pc[c] = "idle" /\ UNCHANGED <<callId, inbox, msgs, owed, nextId>>
                               /\ made' = [made EXCEPT ![c] = @ + 1]
<1>1. UNCHANGED vars => UNCHANGED made
  BY DEF vars, callerVars
<1>2. Environment => UNCHANGED made
  BY DEF Environment, ShutdownSocket, ShutdownSignal, Listen, ReceiverEnds, NotApp,
         callerVars, WsCloses, WsPanics, WsForwardsEvent, WsForwardsAnswer, NotWs
<1>3. LoopStep => UNCHANGED made
  BY DEF LoopStep, LoopChecksShutdown, LoopHearsNothing, LoopHearsShutdown,
         LoopResolvesCall, LoopRoutesEvent, TailShutsConnection, TailClosesFlag,
         TailCancelsCalls, TailClearsListeners, NotLoop
<1>4. ASSUME NEW c \in Callers, CallerStep(c) PROVE UNCHANGED made
  BY <1>4 DEF CallerStep, RegisterTarget, RegisterBrowser, Register, CheckNested,
              Send, Unregister, UnregisterTarget, ReceiveBrowser, ReceiveTarget, LastPoll, TimeOut
<1>5. ASSUME NEW c \in Callers, NEW d \in {"target", "browser"}, StartCall(c, d)
      PROVE  /\ pc[c] = "idle" /\ UNCHANGED <<callId, inbox, msgs, owed, nextId>>
             /\ made' = [made EXCEPT ![c] = @ + 1]
  BY <1>5 DEF StartCall, NotCaller
<1>6. QED
  BY <1>1, <1>2, <1>3, <1>4, <1>5, NextCases

LEMMA IdsMoveNext ==
  ASSUME TypeOK, Shape, [Next]_vars
  PROVE  IdsMove
<1>0. nextId \in Nat /\ callId \in [Frames -> Nat \cup {None}]
  BY DEF TypeOK
<1>1. nextId' \in Nat /\ nextId <= nextId' /\ \A f \in Frames : callId'[f] \in {None, nextId, callId[f]}
  <2>1. RegistryStep
    BY NextRegistryStep
  <2>2. CASE Registers
    BY <1>0, <2>2 DEF Registers, RegisterCall
  <2>3. CASE UNCHANGED nextId /\ UNCHANGED callId
    BY <1>0, <2>3
  <2>4. CASE UNCHANGED nextId /\ \E S : DropReceivers(S)
    BY <1>0, <2>4 DEF DropReceivers
  <2>5. QED
    BY <2>1, <2>2, <2>3, <2>4
       DEF RegistryStep, Quiet, Drops, Unregisters, Resolves, Cancels
<1>2. CASE UNCHANGED made
  BY <1>1, <1>2 DEF IdsMove
<1>3. ASSUME NEW c \in Callers, pc[c] = "idle", UNCHANGED callId, made' = [made EXCEPT ![c] = @ + 1]
      PROVE  IdsMove
  <2>1. callId[T(c)] = None /\ callId[B(c)] = None
    BY <1>3 DEF Shape, Nested
  <2>2. made \in [Callers -> Nat]
    BY DEF TypeOK
  <2>3. ASSUME NEW f \in Frames PROVE callId'[f] = None \/ (callId'[f] = callId[f] /\ made'[f[1]] = made[f[1]])
    <3>1. CASE f[1] = c
      BY <1>3, <2>1, <3>1, FrameOwner
    <3>2. CASE f[1] # c
      <4>1. f[1] \in Callers
        BY FrameOwner
      <4>2. QED BY <1>3, <2>2, <3>2, <4>1
    <3>3. QED BY <3>1, <3>2
  <2>4. QED BY <1>1, <2>3 DEF IdsMove
<1>4. QED
  BY <1>2, <1>3, MadeMoves

LEMMA BelongsStays ==
  ASSUME TypeOK, IdsMove, NEW x, x.id \in Nat, Belongs(x)
  PROVE  WillBelong(x)
<1>0. nextId \in Nat /\ nextId' \in Nat /\ nextId <= nextId'
  BY DEF TypeOK, IdsMove
<1>1. x.id < nextId'
  BY <1>0 DEF Belongs
<1>2. ASSUME NEW f \in Frames, callId'[f] = x.id PROVE x.from = f /\ x.nth = made'[f[1]]
  <2>1. x.id # None /\ x.id # nextId
    BY <1>0, NoneIsNoId DEF Belongs
  <2>2. callId'[f] = callId[f] /\ made'[f[1]] = made[f[1]]
    BY <1>2, <2>1 DEF IdsMove
  <2>3. QED BY <1>2, <2>2 DEF Belongs
<1>3. QED BY <1>1, <1>2 DEF WillBelong

(* What Chrome owes and what the loop has still to hear grows by a request *)
(* that is sent, and by an answer to one that was owed.                    *)
AnswerTo(r, ok) ==
  [type |-> "answer", id |-> r.id, from |-> r.from, nth |-> r.nth, ok |-> ok]
Sends(c) == pc[c] = "send" /\ owed' = owed \cup NewRequests(c) /\ UNCHANGED <<callId, made, nextId>>

LEMMA OwedMoves ==
  ASSUME TypeOK, [Next]_vars
  PROVE  owed' \subseteq owed \/ \E c \in Callers : Sends(c)
<1>1. UNCHANGED vars => owed' \subseteq owed
  BY DEF vars, chromeVars
<1>2. Environment => owed' \subseteq owed
  BY DEF Environment, ShutdownSocket, ShutdownSignal, Listen, ReceiverEnds, NotApp,
         chromeVars, WsCloses, WsPanics, WsForwardsEvent, WsForwardsAnswer
<1>3. LoopStep => owed' \subseteq owed
  BY DEF LoopStep, LoopChecksShutdown, LoopHearsNothing, LoopHearsShutdown,
         LoopResolvesCall, LoopRoutesEvent, TailShutsConnection, TailClosesFlag,
         TailCancelsCalls, TailClearsListeners, NotLoop, chromeVars
<1>4. ASSUME NEW c \in Callers,
             CallerStep(c) \/ \E d \in {"target", "browser"} : StartCall(c, d)
      PROVE  owed' \subseteq owed \/ Sends(c)
  <2>1. CASE Send(c)
    BY <2>1 DEF Send, Sends
  <2>2. CASE ~Send(c)
    BY <1>4, <2>2 DEF CallerStep, StartCall, RegisterTarget, RegisterBrowser, Register,
       CheckNested, Unregister, UnregisterTarget, ReceiveBrowser, ReceiveTarget, LastPoll, TimeOut
  <2>3. QED BY <2>1, <2>2
<1>5. QED
  BY <1>1, <1>2, <1>3, <1>4, NextCases

LEMMA MsgsMove ==
  ASSUME TypeOK, [Next]_vars
  PROVE  \/ msgs' = <<>>
         \/ UNCHANGED msgs
         \/ msgs # <<>> /\ msgs' = Tail(msgs)
         \/ \E m \in Message : /\ msgs' = Append(msgs, m)
                               /\ m.type = "answer" =>
                                    \E r \in owed, ok \in BOOLEAN : m = AnswerTo(r, ok)
<1> DEFINE Moves ==
         \/ msgs' = <<>>
         \/ UNCHANGED msgs
         \/ msgs # <<>> /\ msgs' = Tail(msgs)
         \/ \E m \in Message : /\ msgs' = Append(msgs, m)
                               /\ m.type = "answer" =>
                                    \E r \in owed, ok \in BOOLEAN : m = AnswerTo(r, ok)
<1>1. UNCHANGED vars => Moves
  BY DEF vars
<1>2. ASSUME NEW c \in Callers,
             CallerStep(c) \/ \E d \in {"target", "browser"} : StartCall(c, d)
      PROVE  Moves
  BY <1>2 DEF CallerStep, StartCall, RegisterTarget, RegisterBrowser, Register, CheckNested,
              Send, Unregister, UnregisterTarget, ReceiveBrowser, ReceiveTarget, LastPoll,
              TimeOut, NotCaller
<1>3. LoopStep => Moves
  BY DEF LoopStep, LoopChecksShutdown, LoopHearsNothing, LoopHearsShutdown,
         LoopResolvesCall, LoopRoutesEvent, TailShutsConnection, TailClosesFlag,
         TailCancelsCalls, TailClearsListeners, Takes, Continue, Break, LoopPanics
<1>4. CASE Environment
  <2>1. CASE ShutdownSocket \/ ShutdownSignal \/ WsPanics
             \/ \E l \in Listeners : Listen(l) \/ ReceiverEnds(l)
    BY <2>1 DEF ShutdownSocket, ShutdownSignal, Listen, ReceiverEnds, NotApp, WsPanics
  <2>2. CASE WsCloses
    BY <2>2 DEF WsCloses, Message, ConnectionShutdown
  <2>3. ASSUME NEW l \in Listeners, WsForwardsEvent(l) PROVE Moves
    <3>1. [type |-> "event", to |-> l] \in Message
      BY DEF Message, Event
    <3>2. QED BY <2>3, <3>1 DEF WsForwardsEvent, Forward
  <2>4. ASSUME NEW r \in owed, NEW ok \in BOOLEAN, WsForwardsAnswer(r, ok) PROVE Moves
    <3>1. AnswerTo(r, ok) \in Message
      BY DEF TypeOK, Message, Answer, Request, AnswerTo
    <3>2. Forward(AnswerTo(r, ok))
      BY <2>4 DEF WsForwardsAnswer, AnswerTo
    <3>3. QED BY <3>1, <3>2 DEF Forward
  <2>5. QED BY <1>4, <2>1, <2>2, <2>3, <2>4 DEF Environment
<1>5. QED
  BY <1>1, <1>2, <1>3, <1>4, NextCases

LEMMA KeepOwnIds ==
  ASSUME TypeOK, Shape, RegistryInv, OwnIds, [Next]_vars
  PROVE  OwnIds'
<1>0. IdsMove
  BY IdsMoveNext
<1>1. ASSUME NEW r \in owed PROVE Belongs(r) /\ WillBelong(r)
  BY <1>0, BelongsStays DEF OwnIds, TypeOK, Request
<1>2. ASSUME NEW r \in owed' PROVE WillBelong(r)
  <2>1. CASE r \in owed
    BY <1>1, <2>1
  <2>2. ASSUME NEW c \in Callers, Sends(c), r \in NewRequests(c) PROVE WillBelong(r)
    <3>1. PICK f \in {T(c), B(c)} :
            callId[f] # None /\ r.id = callId[f] /\ r.from = f /\ r.nth = made[c]
      BY <2>2 DEF NewRequests, Nested, Sends, Shape
    <3>2. f \in Frames /\ f[1] = c
      <4>1. f \in Frames
        BY <3>1, FrameFacts
      <4>2. T(c)[1] = c /\ B(c)[1] = c
        BY DEF T, B
      <4>3. QED BY <3>1, <4>1, <4>2
    <3>3. r.id < nextId
      BY <3>1, <3>2 DEF RegistryInv, IdsBelowNext
    <3>4. \A g \in Frames : callId[g] = r.id => g = f
      BY <3>1, <3>2 DEF RegistryInv, IdsDistinct
    <3>5. QED
      BY <2>2, <3>1, <3>2, <3>3, <3>4 DEF WillBelong, Sends
  <2>3. QED BY <2>1, <2>2, OwedMoves DEF Sends
<1>3. \A i \in DOMAIN msgs : msgs[i].type = "answer" => msgs[i] \in Answer /\ WillBelong(msgs[i])
  <2>1. \A i \in DOMAIN msgs : msgs[i] \in Answer \cup Event \cup {ConnectionShutdown}
    BY DEF TypeOK
  <2>2. \A i \in DOMAIN msgs : msgs[i].type = "answer" => msgs[i] \in Answer
    BY <2>1 DEF Event, ConnectionShutdown
  <2>3. \A x \in Answer : x.id \in Nat
    BY DEF Answer
  <2>4. QED BY <1>0, <2>2, <2>3, BelongsStays DEF OwnIds
<1>4. ASSUME NEW i \in DOMAIN msgs', msgs'[i].type = "answer" PROVE WillBelong(msgs'[i])
  <2>0. msgs \in Seq(Message)
    BY DEF TypeOK, Message
  <2>1. CASE msgs' = <<>>
    BY <1>4, <2>1
  <2>2. CASE UNCHANGED msgs
    BY <1>3, <1>4, <2>2
  <2>3. CASE msgs # <<>> /\ msgs' = Tail(msgs)
    <3>1. i + 1 \in DOMAIN msgs /\ msgs'[i] = msgs[i + 1]
      BY <1>4, <2>0, <2>3
    <3>2. QED BY <1>3, <1>4, <3>1
  <2>4. ASSUME NEW m \in Message, msgs' = Append(msgs, m),
               m.type = "answer" => \E r \in owed, ok \in BOOLEAN : m = AnswerTo(r, ok)
        PROVE  WillBelong(msgs'[i])
    <3>1. (i \in DOMAIN msgs /\ msgs'[i] = msgs[i]) \/ msgs'[i] = m
      BY <1>4, <2>0, <2>4
    <3>2. CASE msgs'[i] = m
      <4>1. PICK r \in owed, ok \in BOOLEAN : m = AnswerTo(r, ok)
        BY <1>4, <2>4, <3>2
      <4>2. m.id = r.id /\ m.from = r.from /\ m.nth = r.nth
        BY <4>1 DEF AnswerTo
      <4>3. WillBelong(r)
        BY <1>1
      <4>4. QED BY <3>2, <4>2, <4>3 DEF WillBelong
    <3>3. QED BY <1>3, <1>4, <3>1, <3>2
  <2>5. QED BY <2>1, <2>2, <2>3, <2>4, MsgsMove
<1>5. QED BY <1>2, <1>4 DEF OwnIds, Belongs, WillBelong

(* What is in a channel, and for which call, after a step.                 *)
LEMMA KeepOwnAnswer ==
  ASSUME TypeOK, Shape, RegistryInv, OwnInv, [Next]_vars
  PROVE  OwnAnswer'
<1>0. /\ inbox \in [Frames -> Seq(Answer \cup {Closed})]
      /\ callId \in [Frames -> Nat \cup {None}] /\ calls \in SUBSET [id : Nat, rx : Frames]
  BY DEF TypeOK
<1>1. SUFFICES ASSUME NEW f \in Frames, NEW i \in DOMAIN inbox'[f], inbox'[f][i] # Closed
               PROVE  inbox'[f][i].from = f /\ inbox'[f][i].nth = made'[f[1]]
  BY DEF OwnAnswer
<1>2. CASE inbox[f] = inbox'[f]
  <2>1. inbox[f][i].from = f /\ inbox[f][i].nth = made[f[1]]
    BY <1>1, <1>2 DEF OwnInv, OwnAnswer
  <2>2. callId[f] # None
    BY <1>1, <1>2 DEF RegistryInv, Replies
  <2>3. made'[f[1]] = made[f[1]]
    <3>1. ASSUME NEW c \in Callers, pc[c] = "idle", made' = [made EXCEPT ![c] = @ + 1]
          PROVE  made'[f[1]] = made[f[1]]
      <4>1. f[1] # c
        BY <2>2, <3>1, FrameOwner DEF Shape, Nested
      <4>2. QED BY <3>1, <4>1, FrameOwner DEF TypeOK
    <3>2. QED BY <3>1, MadeMoves
  <2>4. QED BY <1>2, <2>1, <2>3
<1>3. CASE inbox'[f] = <<>>
  BY <1>1, <1>3
<1>4. ASSUME UNCHANGED made, NEW m, inbox'[f] = Append(inbox[f], m),
             m # Closed => m.from = f /\ m.nth = made[f[1]],
             m \in Answer \cup {Closed}
      PROVE  inbox'[f][i].from = f /\ inbox'[f][i].nth = made'[f[1]]
  <2>1. inbox[f] \in Seq(Answer \cup {Closed})
    BY <1>0
  <2>2. (i \in DOMAIN inbox[f] /\ inbox'[f][i] = inbox[f][i]) \/ inbox'[f][i] = m
    BY <1>1, <1>4, <2>1
  <2>3. QED BY <1>1, <1>4, <2>2 DEF OwnInv, OwnAnswer
<1>5. CASE LoopResolvesCall
  <2> DEFINE answer == Head(msgs)
             entry  == CHOOSE e \in calls : e.id = answer.id
  <2>1. answer \in Answer /\ answer = msgs[1] /\ 1 \in DOMAIN msgs
    <3>1. msgs \in Seq(Message) /\ msgs # <<>> /\ Head(msgs).type = "answer"
      BY <1>5 DEF LoopResolvesCall, Takes, TypeOK, Message
    <3>2. Head(msgs) \in Message
      BY <3>1
    <3>3. Head(msgs) \in Answer
      BY <3>1, <3>2 DEF Message, Event, ConnectionShutdown
    <3>4. QED BY <3>1, <3>3
  <2>2. UNCHANGED made
    BY <1>5 DEF LoopResolvesCall, NotLoop
  <2>3. CASE UNCHANGED inbox
    BY <1>2, <2>3
  <2>4. CASE /\ Registered(answer.id) /\ callId[entry.rx] = answer.id
             /\ inbox' = [inbox EXCEPT ![entry.rx] = Append(@, answer)]
    <3>1. entry \in calls
      BY <2>4 DEF Registered
    <3>2. entry.rx \in Frames
      BY <1>0, <3>1
    <3>3. answer.type = "answer" => Belongs(answer)
      BY <2>1 DEF OwnInv, OwnIds
    <3>4. answer.type = "answer"
      BY <1>5 DEF LoopResolvesCall, Takes
    <3> HIDE DEF answer, entry
    <3>5. answer.from = entry.rx /\ answer.nth = made[entry.rx[1]]
      BY <2>4, <3>2, <3>3, <3>4 DEF Belongs
    <3>6. CASE f = entry.rx
      <4>1. inbox'[f] = Append(inbox[f], answer)
        BY <1>0, <2>4, <3>2, <3>6
      <4>2. QED BY <1>4, <2>1, <2>2, <3>5, <3>6, <4>1
    <3>7. CASE f # entry.rx
      BY <1>0, <1>2, <2>4, <3>7
    <3>8. QED BY <3>6, <3>7
  <2>5. QED
    BY <1>5, <2>3, <2>4 DEF LoopResolvesCall
<1>6. CASE TailCancelsCalls
  <2>1. UNCHANGED made
    BY <1>6 DEF TailCancelsCalls, NotLoop
  <2>2. inbox'[f] = inbox[f] \/ inbox'[f] = Append(inbox[f], Closed)
    BY <1>6 DEF TailCancelsCalls, CancelOutstandingMethodCalls
  <2>3. QED BY <1>2, <1>4, <2>1, <2>2
<1>7. CASE LoopStep /\ ~LoopResolvesCall /\ ~TailCancelsCalls
  <2>1. UNCHANGED inbox
    BY <1>7 DEF LoopStep, LoopChecksShutdown, LoopHearsNothing, LoopHearsShutdown,
         LoopRoutesEvent, TailShutsConnection, TailClosesFlag, TailClearsListeners
  <2>2. QED BY <1>2, <2>1
<1>8. CASE Environment \/ UNCHANGED vars
  <2>1. UNCHANGED inbox
    BY <1>8 DEF vars, Environment, ShutdownSocket, ShutdownSignal, Listen, ReceiverEnds,
       NotApp, callerVars, WsCloses, WsPanics, WsForwardsEvent, WsForwardsAnswer, NotWs
  <2>2. QED BY <1>2, <2>1
<1>9. ASSUME NEW c \in Callers,
             CallerStep(c) \/ \E d \in {"target", "browser"} : StartCall(c, d)
      PROVE  inbox'[f] \in {inbox[f], <<>>}
  <2>1. UNCHANGED inbox \/ \E S : DropReceivers(S)
    BY <1>9 DEF CallerStep, StartCall, RegisterTarget, RegisterBrowser, Register, CheckNested,
         Send, Unregister, UnregisterTarget, ReceiveBrowser, ReceiveTarget, LastPoll, TimeOut,
         CallerPanics, BrowserCallFails, Return
  <2>2. QED BY <2>1 DEF DropReceivers
<1>10. QED
  BY <1>2, <1>3, <1>5, <1>6, <1>7, <1>8, <1>9, NextCases

-----------------------------------------------------------------------------
(* The inductive invariant and the theorems.                               *)

IInv == TypeOK /\ Shape /\ RegistryInv /\ SocketInv /\ TailInv /\ OwnInv

LEMMA InitIInv == Init => IInv
<1> SUFFICES ASSUME Init PROVE IInv
  OBVIOUS
<1>1. Shape
  BY FrameFacts DEF Init, Shape, Nested
<1>2. SocketInv /\ TailInv
  BY DEF Init, SocketInv, TailInv
<1>3. OwnInv
  BY DEF Init, OwnInv, OwnIds, OwnAnswer
<1>4. QED
  BY <1>1, <1>2, <1>3, TypeInit, RegistryInit DEF IInv

LEMMA NextIInv == IInv /\ [Next]_vars => IInv'
<1> SUFFICES ASSUME IInv, [Next]_vars PROVE IInv'
  OBVIOUS
<1>1. TypeOK' /\ Shape'
  BY TypeNext, ShapeNext DEF IInv
<1>2. RegistryStep /\ (loop' \in Early => loop \in Early)
  BY NextRegistryStep DEF IInv
<1>3. RegistryInv'
  BY <1>2, KeepIds, KeepCovered, KeepReplies DEF IInv, RegistryInv
<1>4. SocketInv' /\ TailInv'
  BY SocketNext, TailNext DEF IInv
<1>5. OwnInv'
  BY KeepOwnIds, KeepOwnAnswer DEF IInv, OwnInv
<1>6. QED
  BY <1>1, <1>3, <1>4, <1>5 DEF IInv

LEMMA SpecIInv == Spec => []IInv
BY InitIInv, NextIInv, PTL DEF Spec

(* The types hold in every run: among them that a caller never starts more *)
(* calls than its bound, and that the channels hold only what the code     *)
(* puts there.                                                             *)
THEOREM TypesHold == Spec => []TypeOK
<1>1. IInv => TypeOK
  BY DEF IInv
<1>2. QED BY SpecIInv, <1>1, PTL

(* A frame that polls is the browser frame or the target frame of a caller *)
(* at the matching place of call_method.                                   *)
LEMMA WaitingFrame ==
  ASSUME NEW f \in Frames, Waiting(f)
  PROVE  \E c \in Callers : \/ f = B(c) /\ pc[c] = "wait"
                            \/ f = T(c) /\ pc[c] = "waitT"
<1>1. f[1] \in Callers /\ f = <<f[1], f[2]>>
  <2>1. PICK c \in Callers, s \in {"target", "browser"} : f = <<c, s>>
    BY DEF Frames
  <2>2. QED BY <2>1
<1>2. CASE f[2] = "browser" /\ pc[f[1]] = "wait"
  <2> DEFINE c == f[1]
  <2>1. f = B(c) /\ pc[c] = "wait" /\ c \in Callers
    BY <1>1, <1>2 DEF B
  <2> HIDE DEF c
  <2>2. QED BY <2>1
<1>3. CASE f[2] = "target" /\ pc[f[1]] = "waitT"
  <2> DEFINE c == f[1]
  <2>1. f = T(c) /\ pc[c] = "waitT" /\ c \in Callers
    BY <1>1, <1>3 DEF T
  <2> HIDE DEF c
  <2>2. QED BY <2>1
<1>4. QED BY <1>2, <1>3 DEF Waiting

(* Nobody polls a channel in vain: until its reply is there, the sender is *)
(* in the registry, where the loop finds it.                               *)
THEOREM WaitersStayRegistered == Spec => []WaitersAreRegistered
<1>1. IInv => WaitersAreRegistered
  <2> SUFFICES ASSUME IInv, NEW f \in Frames, Waiting(f)
               PROVE  Answered(f) \/ [id |-> callId[f], rx |-> f] \in calls
    BY DEF WaitersAreRegistered
  <2>1. PICK c \in Callers : \/ f = B(c) /\ pc[c] = "wait"
                             \/ f = T(c) /\ pc[c] = "waitT"
    BY WaitingFrame
  <2>2. callId[f] # None
    BY <2>1 DEF IInv, Shape, Nested
  <2>3. QED BY <2>2 DEF IInv, RegistryInv, Covered
<1>2. QED BY SpecIInv, <1>1, PTL

(* Once the loop has cancelled the outstanding calls, every call_method    *)
(* that still polls has something to find: no caller is left to its own    *)
(* timeout by the end of the connection.                                   *)
THEOREM NobodyIsStranded == Spec => []NoStrandedCall
<1>1. IInv => NoStrandedCall
  <2> SUFFICES ASSUME IInv, loop \in {"clear", "done"}, NEW f \in Frames, Waiting(f)
               PROVE  Answered(f)
    BY DEF NoStrandedCall
  <2>1. PICK c \in Callers : \/ f = B(c) /\ pc[c] = "wait"
                             \/ f = T(c) /\ pc[c] = "waitT"
    BY WaitingFrame
  <2>2. QED BY <2>1 DEF IInv, TailInv
<1>2. QED BY SpecIInv, <1>1, PTL

(* No channel gets two replies, although cancelled entries stay in the     *)
(* registry: cancellation is the last thing to write to a channel.         *)
THEOREM RepliesAreSingle == Spec => []AtMostOneReply
<1>1. IInv => AtMostOneReply
  BY DEF IInv, RegistryInv, Replies, AtMostOneReply
<1>2. QED BY SpecIInv, <1>1, PTL

(* The answer that a call finds in its channel is to the request that this *)
(* activation sent: not to a call that the thread gave up before, to the   *)
(* call wrapped in it, or to another thread's.                             *)
THEOREM AnswersAreOwn == Spec => []OwnAnswer
<1>1. IInv => OwnAnswer
  BY DEF IInv, OwnInv
<1>2. QED BY SpecIInv, <1>1, PTL

(* A call that saw `open` true before the loop cleared it cannot send any  *)
(* more: the socket was closed first.                                      *)
THEOREM SendsStopAtClose == Spec => NothingSentAfterClose
<1>1. IInv /\ [Next]_vars => [owed' \subseteq owed \/ open]_vars
  <2> SUFFICES ASSUME IInv, Next PROVE owed' \subseteq owed \/ open
    BY DEF vars, callerVars, chromeVars
  <2>1. CASE LoopStep \/ ShutdownSocket \/ ShutdownSignal
             \/ \E l \in Listeners : Listen(l) \/ ReceiverEnds(l) \/ WsForwardsEvent(l)
    BY <2>1 DEF LoopStep, LoopChecksShutdown, LoopHearsNothing, LoopHearsShutdown,
         LoopResolvesCall, LoopRoutesEvent, TailShutsConnection, TailClosesFlag,
         TailCancelsCalls, TailClearsListeners, NotLoop, ShutdownSocket, ShutdownSignal,
         Listen, ReceiverEnds, NotApp, WsForwardsEvent, chromeVars
  <2>2. CASE WsCloses \/ WsPanics \/ \E r \in owed, ok \in BOOLEAN : WsForwardsAnswer(r, ok)
    BY <2>2 DEF WsCloses, WsPanics, WsForwardsAnswer
  <2>3. ASSUME NEW c \in Callers,
               CallerStep(c) \/ \E d \in {"target", "browser"} : StartCall(c, d)
        PROVE  owed' \subseteq owed \/ open
    <3>1. CASE Send(c)
      BY <3>1 DEF Send, IInv, SocketInv
    <3>2. CASE ~Send(c)
      BY <2>3, <3>2 DEF CallerStep, StartCall, RegisterTarget, RegisterBrowser, Register,
         CheckNested, Unregister, UnregisterTarget, ReceiveBrowser, ReceiveTarget, LastPoll,
         TimeOut
    <3>3. QED BY <3>1, <3>2
  <2>4. QED BY <2>1, <2>2, <2>3 DEF Next
<1>2. QED BY SpecIInv, <1>1, PTL DEF Spec, NothingSentAfterClose
=============================================================================
