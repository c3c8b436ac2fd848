------------------------ MODULE CallRefinementProofs ------------------------
(***************************************************************************)
(* What the transport does when nothing disturbs it: no wait runs out,     *)
(* Chrome answers SendMessageToTarget before the call that it carries, and *)
(* no thread that reads a target's events dies.  Then it does not panic,   *)
(* every answer finds its call, and it implements CallService, for any     *)
(* callers and listeners and any number of calls and events; the           *)
(* connection may end at any moment and in every way.                      *)
(***************************************************************************)
EXTENDS CallRefinement, TransportProofs

Undisturbed == ~WaitsExpire /\ ~OuterFirst /\ Mortal \subseteq {Browser}

Entry(f) == [id |-> callId[f], rx |-> f]
AnswersAt == {i \in DOMAIN msgs : msgs[i].type = "answer"}

(* The frame of SendMessageToTarget has heard that its message arrived.    *)
IsOk(s) == s # <<>> /\ Head(s) # Closed /\ Head(s).ok
Accepted(c) == IsOk(inbox[B(c)])

Calm ==
  /\ poisoned = {} /\ loop # "panicked" /\ deadRx \subseteq Mortal
  /\ \A c \in Callers : pc[c] \notin {"expired", "expiredT", "panicked"}
  /\ open <=> loop \notin {"cancel", "clear", "done"}

(* Who may have to unregister a call has it registered: the target frame's *)
(* entry goes only after its SendMessageToTarget was accepted.             *)
HoldsEntry ==
  \A c \in Callers :
    /\ pc[c] \in {"send", "unregister"} => Entry(B(c)) \in calls
    /\ Nested(c) => \/ Entry(T(c)) \in calls
                    \/ pc[c] = "waitT"
                    \/ pc[c] = "wait" /\ Accepted(c)

EntriesAreLive == \A e \in calls : callId[e.rx] = e.id

(* A request that Chrome owes, or an answer that the loop has not taken,   *)
(* has its asker waiting with its sender in the registry.                  *)
Live(x) ==
  /\ callId[x.from] = x.id /\ Entry(x.from) \in calls
  /\ \A c \in Callers : /\ x.from = B(c) => pc[c] = "wait"
                        /\ x.from = T(c) => pc[c] \in {"wait", "waitT"}
UnderWay == (\A r \in owed : Live(r)) /\ \A i \in AnswersAt : Live(msgs[i])

(* No frame has two of them.                                               *)
Single ==
  /\ \A r \in owed : \A q \in owed : r.from = q.from => r = q
  /\ \A i \in AnswersAt : \A j \in AnswersAt : msgs[i].from = msgs[j].from => i = j
  /\ \A r \in owed : \A i \in AnswersAt : r.from # msgs[i].from

Wraps ==
  \A r \in owed : \A c \in Callers : /\ r.from = B(c) => r.wraps = callId[T(c)]
                                     /\ r.from = T(c) => r.wraps = None

(* What a target is asked or has answered comes after the acceptance of    *)
(* the SendMessageToTarget that carries it.                                *)
OkAt(j, c) == j \in AnswersAt /\ msgs[j].from = B(c) /\ msgs[j].ok
InOrder ==
  \A c \in Callers : pc[c] # "waitT" /\ ~Accepted(c) =>
    /\ (\E r \in owed : r.from = T(c)) =>
         \/ \E r \in owed : r.from = B(c)
         \/ \E j \in AnswersAt : OkAt(j, c)
    /\ \A i \in AnswersAt :
         msgs[i].from = T(c) => \E j \in AnswersAt : j < i /\ OkAt(j, c)

Traffic == EntriesAreLive /\ UnderWay /\ Single /\ Wraps /\ InOrder
CalmInv == Calm /\ HoldsEntry /\ (loop \in Early => Traffic)

-----------------------------------------------------------------------------
(* What the steps do, by the thread that takes them.                       *)

LEMMA FramesApart ==
  ASSUME NEW c \in Callers, NEW k \in Callers
  PROVE  /\ T(k) \in Frames /\ B(k) \in Frames /\ T(k) # B(c) /\ B(k) # T(c)
         /\ k # c => T(k) # T(c) /\ B(k) # B(c)
         /\ T(c)[1] = c /\ B(c)[1] = c
BY DEF T, B, Frames

LEMMA FrameOf ==
  ASSUME NEW f \in Frames
  PROVE  \E c \in Callers : f = T(c) \/ f = B(c)
BY FrameOwner

OwnFrames(c) == {T(c), B(c)}

(* A caller's step leaves the others' frames, and their entries, alone.    *)
OthersKeep(c) ==
  /\ \A k \in Callers \ {c} : pc'[k] = pc[k] /\ made'[k] = made[k]
  /\ \A f \in Frames \ OwnFrames(c) :
       /\ callId'[f] = callId[f] /\ inbox'[f] = inbox[f]
       /\ callId[f] # None /\ Entry(f) \in calls => Entry(f) \in calls'
  /\ UNCHANGED <<loop, msgs, poisoned, open, deadRx>>

(* The kinds of a caller's steps.                                          *)
Walks(c) ==
  /\ UNCHANGED <<callId, calls, inbox, owed>>
  /\ \/ pc[c] = "idle" /\ pc'[c] = "idle"
     \/ open /\ pc[c] = "idle" /\ pc'[c] \in {"registerT", "register"}
     \/ pc[c] = "check" /\ pc'[c] \in {"register", "unregisterT"}
     \/ pc[c] = "send" /\ pc'[c] = "unregister"
     \/ open /\ pc[c] = "send" /\ pc'[c] = "wait"
Files(c) ==
  /\ \/ pc[c] = "registerT" /\ pc'[c] = "check" /\ RegisterCall(T(c))
     \/ pc[c] = "register" /\ pc'[c] = "send" /\ RegisterCall(B(c))
  /\ UNCHANGED <<inbox, owed>>
Asks(c) ==
  /\ open /\ pc[c] = "send" /\ pc'[c] = "wait" /\ owed' = owed \cup NewRequests(c)
  /\ UNCHANGED <<callId, calls, inbox>>
Hears(c) ==
  /\ pc[c] = "wait" /\ inbox[B(c)] # <<>>
  /\ pc'[c] = IF ~Nested(c) THEN "idle" ELSE IF Accepted(c) THEN "waitT" ELSE "unregisterT"
  /\ DropReceivers({B(c)}) /\ UNCHANGED <<calls, owed>>
Finishes(c) ==
  /\ pc[c] = "waitT" /\ inbox[T(c)] # <<>> /\ pc'[c] = "idle"
  /\ DropReceivers(OwnFrames(c)) /\ UNCHANGED <<calls, owed>>
TakesBack(c) ==
  /\ \/ /\ pc[c] = "unregister" /\ pc'[c] = IF Nested(c) THEN "unregisterT" ELSE "idle"
        /\ calls' = Removed(callId[B(c)]) /\ DropReceivers({B(c)})
     \/ /\ pc[c] = "unregisterT" /\ pc'[c] = "idle"
        /\ calls' = Removed(callId[T(c)]) /\ DropReceivers(OwnFrames(c))
  /\ UNCHANGED owed
CallerMove(c) ==
  Walks(c) \/ Files(c) \/ Asks(c) \/ Hears(c) \/ Finishes(c) \/ TakesBack(c)

LEMMA CallerMoves ==
  ASSUME Undisturbed, IInv, CalmInv, NEW c \in Callers,
         CallerStep(c) \/ \E d \in {"target", "browser"} : StartCall(c, d)
  PROVE  CallerMove(c) /\ \A k \in Callers \ {c} : pc'[k] = pc[k] /\ made'[k] = made[k]
<1>0. /\ pc \in [Callers -> CallerPCs] /\ made \in [Callers -> Nat]
      /\ "calls" \notin poisoned /\ ~WaitsExpire
      /\ pc[c] \notin {"expired", "expiredT", "panicked"}
  BY DEF IInv, TypeOK, CalmInv, Calm, Undisturbed
<1>g. ASSUME NEW label, Goto(c, label)
      PROVE  pc'[c] = label /\ \A k \in Callers \ {c} : pc'[k] = pc[k]
  BY <1>0, <1>g DEF Goto
<1>1. ASSUME NEW d \in {"target", "browser"}, StartCall(c, d)
      PROVE  Walks(c) /\ \A k \in Callers \ {c} : pc'[k] = pc[k] /\ made'[k] = made[k]
  BY <1>0, <1>1, <1>g DEF StartCall, Walks
<1>2. CASE RegisterTarget(c) \/ RegisterBrowser(c)
  BY <1>0, <1>2, <1>g DEF RegisterTarget, RegisterBrowser, Register, CallerMove, Files
<1>3. CASE CheckNested(c)
  BY <1>3, <1>g DEF CheckNested, CallerMove, Walks
<1>4. CASE Send(c)
  <2>1. socket # "closed" => open
    BY DEF IInv, SocketInv
  <2>2. QED BY <1>4, <1>g, <2>1 DEF Send, CallerMove, Walks, Asks
<1>5. CASE Unregister(c)
  <2>1. Registered(callId[B(c)])
    BY <1>5 DEF Unregister, CalmInv, HoldsEntry, Entry, Registered
  <2>2. QED
    BY <1>0, <1>5, <1>g, <2>1
       DEF Unregister, BrowserCallFails, CallerMove, TakesBack
<1>6. CASE UnregisterTarget(c)
  <2>1. Nested(c) /\ pc[c] = "unregisterT"
    BY <1>6 DEF UnregisterTarget, IInv, Shape
  <2>2. Registered(callId[T(c)])
    BY <2>1 DEF CalmInv, HoldsEntry, Entry, Registered
  <2>3. QED
    BY <1>0, <1>6, <1>g, <2>2
       DEF UnregisterTarget, Return, CallerMove, TakesBack, OwnFrames
<1>7. CASE ReceiveBrowser(c)
  BY <1>7, <1>g DEF ReceiveBrowser, BrowserCallFails, CallerMove, Hears, Accepted, IsOk
<1>8. CASE ReceiveTarget(c)
  BY <1>8, <1>g DEF ReceiveTarget, Return, CallerMove, Finishes, OwnFrames
<1>9. CASE LastPoll(c) \/ TimeOut(c)
  BY <1>0, <1>9 DEF LastPoll, TimeOut
<1>10. QED
  BY <1>1, <1>2, <1>3, <1>4, <1>5, <1>6, <1>7, <1>8, <1>9 DEF CallerStep, CallerMove,
     RegisterTarget, RegisterBrowser, Register, CheckNested, Send, Unregister,
     UnregisterTarget, ReceiveBrowser, ReceiveTarget

LEMMA CallerKeepsOthers ==
  ASSUME Undisturbed, IInv, CalmInv, NEW c \in Callers,
         CallerStep(c) \/ \E d \in {"target", "browser"} : StartCall(c, d)
  PROVE  CallerMove(c) /\ OthersKeep(c)
<1>0. CallerMove(c) /\ \A k \in Callers \ {c} : pc'[k] = pc[k] /\ made'[k] = made[k]
  BY CallerMoves
<1>1. UNCHANGED <<loop, msgs, open, deadRx>>
  BY DEF CallerStep, StartCall, RegisterTarget, RegisterBrowser, Register, CheckNested,
         Send, Unregister, UnregisterTarget, ReceiveBrowser, ReceiveTarget, LastPoll,
         TimeOut, NotCaller, routeVars
<1>2. UNCHANGED poisoned
  <2>1. pc'[c] # "panicked"
    BY <1>0 DEF CallerMove, Walks, Files, Asks, Hears, Finishes, TakesBack
  <2>2. ~CallerPanics(c)
    BY <2>1 DEF CallerPanics, Goto, IInv, TypeOK
  <2>3. QED
    BY <2>2 DEF CallerStep, StartCall, RegisterTarget, RegisterBrowser, Register, CheckNested,
         Send, Unregister, UnregisterTarget, ReceiveBrowser, ReceiveTarget, LastPoll, TimeOut
<1>3. ASSUME NEW f \in Frames \ OwnFrames(c)
      PROVE  callId'[f] = callId[f] /\ inbox'[f] = inbox[f]
  <2>1. callId \in [Frames -> Nat \cup {None}] /\ f # T(c) /\ f # B(c)
    BY <1>3 DEF IInv, TypeOK, OwnFrames
  <2>2. QED
    BY <1>0, <2>1 DEF CallerMove, Walks, Files, Asks, Hears, Finishes, TakesBack,
       RegisterCall, DropReceivers, OwnFrames
<1>4. ASSUME NEW f \in Frames \ OwnFrames(c), callId[f] # None, Entry(f) \in calls
      PROVE  Entry(f) \in calls'
  <2>1. callId[f] # nextId
    BY <1>4 DEF IInv, TypeOK, RegistryInv, IdsBelowNext
  <2>2. \A g \in OwnFrames(c) : callId[f] # callId[g]
    BY <1>4, FramesApart DEF IInv, RegistryInv, IdsDistinct, OwnFrames
  <2>3. Entry(f).id = callId[f]
    BY DEF Entry
  <2>4. \/ UNCHANGED calls
        \/ \E g \in OwnFrames(c) : calls' = Removed(callId[g])
        \/ \E e : calls' = Removed(nextId) \cup {e}
    BY <1>0 DEF CallerMove, Walks, Files, Asks, Hears, Finishes, TakesBack,
       RegisterCall, OwnFrames
  <2>5. QED BY <1>4, <2>1, <2>2, <2>3, <2>4 DEF Removed
<1>5. QED
  BY <1>0, <1>1, <1>2, <1>3, <1>4 DEF OthersKeep

(* The kinds of the loop's steps.                                          *)
Delivers ==
  LET a == Head(msgs) IN
  /\ loop = "recv" /\ loop' = "check" /\ UNCHANGED <<open, poisoned>>
  /\ msgs # <<>> /\ msgs' = Tail(msgs) /\ 1 \in AnswersAt /\ a = msgs[1]
  /\ calls' = Removed(a.id)
  /\ inbox' = [inbox EXCEPT ![a.from] = Append(@, a)]
CancelsAll ==
  /\ loop = "cancel" /\ loop' = "clear" /\ UNCHANGED <<open, poisoned, msgs>>
  /\ CancelOutstandingMethodCalls
GoesOn ==
  /\ UNCHANGED <<calls, inbox, poisoned>> /\ (open' => open)
  /\ (loop \in Early /\ loop' \in Early) \/ (loop = "clear" /\ loop' = "done")
  /\ open' <=> loop' \notin {"cancel", "clear", "done"}
  /\ \/ UNCHANGED msgs
     \/ msgs # <<>> /\ Head(msgs).type # "answer" /\ msgs' = Tail(msgs)
     \/ loop' = "done"
LoopMove == Delivers \/ CancelsAll \/ GoesOn

(* The answer that the loop takes is for the frame that sent its request.  *)
LEMMA AnswerFindsFrame ==
  ASSUME IInv, CalmInv, Takes("answer")
  PROVE  LET a     == Head(msgs)
             entry == CHOOSE e \in calls : e.id = a.id
         IN /\ 1 \in AnswersAt /\ a = msgs[1] /\ a \in Answer
            /\ Live(a) /\ Registered(a.id) /\ entry \in calls
            /\ entry.rx = a.from /\ callId[a.from] = a.id
<1> DEFINE a == Head(msgs)
           entry == CHOOSE e \in calls : e.id = a.id
<1>1. msgs \in Seq(Message) /\ msgs # <<>> /\ a.type = "answer" /\ loop = "recv"
  BY DEF Takes, IInv, TypeOK, Message
<1>2. 1 \in DOMAIN msgs /\ a = msgs[1] /\ a \in Message
  BY <1>1
<1>3. a \in Answer
  BY <1>1, <1>2 DEF Message, Event, ConnectionShutdown
<1>4. 1 \in AnswersAt
  BY <1>1, <1>2 DEF AnswersAt
<1>5. Live(a)
  BY <1>1, <1>2, <1>4 DEF CalmInv, Early, Traffic, UnderWay
<1>6. callId[a.from] = a.id /\ Entry(a.from) \in calls /\ Entry(a.from).id = a.id
  BY <1>5 DEF Live, Entry
<1>7. Registered(a.id) /\ entry \in calls /\ entry.id = a.id
  BY <1>6 DEF Registered
<1>8. entry.rx = a.from
  BY <1>3, <1>6, <1>7 DEF IInv, RegistryInv, EntriesMatch, Answer
<1>9. QED BY <1>2, <1>3, <1>4, <1>5, <1>6, <1>7, <1>8

LEMMA LoopMoves ==
  ASSUME Undisturbed, IInv, CalmInv, LoopStep
  PROVE  LoopMove /\ UNCHANGED <<pc, callId, owed, made, nextId, deadRx>>
<1>0. poisoned = {} /\ loop # "panicked" /\ (open <=> loop \notin {"cancel", "clear", "done"})
  BY DEF CalmInv, Calm
<1>t. TailOrder.break = "shutdown" /\ TailOrder.shutdown = "close"
      /\ TailOrder.close = "cancel" /\ TailOrder.cancel = "clear" /\ TailOrder.clear = "done"
  BY DEF TailOrder
<1>1. UNCHANGED <<pc, callId, owed, made, nextId, deadRx>>
  BY DEF LoopStep, LoopChecksShutdown, LoopHearsNothing, LoopHearsShutdown,
         LoopResolvesCall, LoopRoutesEvent, TailShutsConnection, TailClosesFlag,
         TailCancelsCalls, TailClearsListeners, NotLoop, chromeVars
<1>2. CASE LoopResolvesCall
  <2>1. Takes("answer")
    BY <1>2 DEF LoopResolvesCall
  <2>2. loop = "recv" /\ msgs # <<>>
    BY <2>1 DEF Takes
  <2> DEFINE a     == Head(msgs)
             entry == CHOOSE e \in calls : e.id = a.id
  <2>3. /\ 1 \in AnswersAt /\ a = msgs[1] /\ Registered(a.id)
        /\ entry.rx = a.from /\ callId[entry.rx] = a.id
    BY <2>1, AnswerFindsFrame
  <2>4. /\ calls' = Removed(a.id) /\ UNCHANGED <<open, poisoned>>
        /\ inbox' = [inbox EXCEPT ![entry.rx] = Append(@, a)] /\ Continue
    BY <1>0, <1>2, <2>3 DEF LoopResolvesCall
  <2>5. inbox' = [inbox EXCEPT ![a.from] = Append(@, a)]
    BY <2>3, <2>4
  <2>6. loop' = "check" /\ msgs' = Tail(msgs)
    BY <2>4 DEF Continue
  <2>7. Delivers
    BY <2>2, <2>3, <2>4, <2>5, <2>6 DEF Delivers
  <2>8. QED BY <1>1, <2>7 DEF LoopMove
<1>3. CASE LoopRoutesEvent
  <2>1. Takes("event")
    BY <1>3 DEF LoopRoutesEvent
  <2>2. ~LoopPanics("listeners")
    <3>1. \A l \in Listeners : l \in deadRx => l = Browser
      BY DEF CalmInv, Calm, Undisturbed
    <3>2. Head(msgs) \in Message /\ Head(msgs).type = "event"
      <4>1. msgs \in Seq(Message) /\ msgs # <<>>
        BY <2>1 DEF Takes, IInv, TypeOK, Message
      <4>2. QED BY <2>1, <4>1 DEF Takes
    <3>3. Head(msgs).to \in Listeners
      BY <3>2 DEF Message, Answer, Event, ConnectionShutdown
    <3>4. loop' # "panicked"
      BY <1>3, <3>1, <3>3, <1>t DEF LoopRoutesEvent, Continue, Break
    <3>5. QED BY <3>4 DEF LoopPanics
  <2>3. (Continue \/ Break) /\ UNCHANGED <<open, calls, inbox, poisoned>>
    BY <1>3, <2>2 DEF LoopRoutesEvent
  <2>4. loop = "recv" /\ msgs # <<>> /\ Head(msgs).type # "answer"
    BY <2>1 DEF Takes
  <2>5. msgs' = Tail(msgs) /\ loop' \in {"check", "shutdown"}
    BY <1>t, <2>3 DEF Continue, Break
  <2>6. GoesOn
    BY <1>0, <2>3, <2>4, <2>5 DEF GoesOn, Early
  <2>7. QED BY <1>1, <2>6 DEF LoopMove
<1>4. CASE TailCancelsCalls
  <2>1. /\ loop = "cancel" /\ loop' = "clear" /\ UNCHANGED <<open, poisoned, msgs>>
        /\ CancelOutstandingMethodCalls
    BY <1>0, <1>t, <1>4 DEF TailCancelsCalls
  <2>2. QED BY <1>1, <2>1 DEF LoopMove, CancelsAll
<1>5. CASE \/ LoopChecksShutdown \/ LoopHearsNothing \/ LoopHearsShutdown
           \/ TailShutsConnection \/ TailClosesFlag \/ TailClearsListeners
  <2>1. UNCHANGED <<calls, inbox, poisoned>>
    BY <1>5
       DEF LoopChecksShutdown, LoopHearsNothing, LoopHearsShutdown, TailShutsConnection,
           TailClosesFlag, TailClearsListeners
  <2>2. /\ (loop \in Early /\ loop' \in Early) \/ (loop = "clear" /\ loop' = "done")
        /\ open' <=> loop' \notin {"cancel", "clear", "done"}
        /\ open' => open
    BY <1>0, <1>t, <1>5
       DEF LoopChecksShutdown, LoopHearsNothing, LoopHearsShutdown, TailShutsConnection,
           TailClosesFlag, TailClearsListeners, Takes, Break, Early
  <2>3. \/ UNCHANGED msgs
        \/ msgs # <<>> /\ Head(msgs).type # "answer" /\ msgs' = Tail(msgs)
        \/ loop' = "done"
    BY <1>t, <1>5
       DEF LoopChecksShutdown, LoopHearsNothing, LoopHearsShutdown, TailShutsConnection,
           TailClosesFlag, TailClearsListeners, Takes, Break
  <2>4. QED BY <1>1, <2>1, <2>2, <2>3 DEF LoopMove, GoesOn
<1>6. QED
  BY <1>1, <1>2, <1>3, <1>4, <1>5 DEF LoopStep

(* The kinds of the steps of Chrome, the socket and the application.       *)
AnswersOne ==
  \E r \in owed, ok \in BOOLEAN :
    /\ MayAnswer(r, ok)
    /\ owed' = {q \in owed : q # r /\ (ok \/ q.id # r.wraps)}
    /\ msgs' = Append(msgs, AnswerTo(r, ok)) \/ (loop = "done" /\ UNCHANGED msgs)
HappensAround ==
  /\ owed' \in {owed, {}}
  /\ UNCHANGED msgs \/ \E m \in Message : m.type # "answer" /\ msgs' = Append(msgs, m)

LEMMA EnvironmentMoves ==
  ASSUME CalmInv, Environment
  PROVE  /\ AnswersOne \/ HappensAround
         /\ UNCHANGED <<pc, callId, calls, inbox, made, nextId, loop, open, poisoned>>
         /\ deadRx' \subseteq Mortal
<1>0. loop # "panicked" /\ deadRx \subseteq Mortal
  BY DEF CalmInv, Calm
<1>1. UNCHANGED <<pc, callId, calls, inbox, made, nextId, loop, open, poisoned>>
  BY DEF Environment, ShutdownSocket, ShutdownSignal, Listen, ReceiverEnds, NotApp,
         callerVars, WsCloses, WsPanics, WsForwardsEvent, WsForwardsAnswer, NotWs
<1>2. deadRx' \subseteq Mortal
  BY <1>0 DEF Environment, ShutdownSocket, ShutdownSignal, Listen, ReceiverEnds, NotApp,
         WsCloses, WsPanics, WsForwardsEvent, WsForwardsAnswer, NotWs, routeVars
<1>3. ASSUME NEW r \in owed, NEW ok \in BOOLEAN, WsForwardsAnswer(r, ok) PROVE AnswersOne
  BY <1>0, <1>3 DEF WsForwardsAnswer, Forward, LoopEnded, AnswersOne, AnswerTo
<1>4. ASSUME NEW l \in Listeners, WsForwardsEvent(l) PROVE HappensAround
  <2>1. [type |-> "event", to |-> l] \in Message
    BY DEF Message, Event
  <2>2. QED BY <1>4, <2>1 DEF WsForwardsEvent, Forward, HappensAround
<1>5. WsCloses => HappensAround
  BY DEF WsCloses, HappensAround, Message, ConnectionShutdown
<1>6. CASE ShutdownSocket \/ ShutdownSignal \/ WsPanics
           \/ \E l \in Listeners : Listen(l) \/ ReceiverEnds(l)
  <2>1. owed' \in {owed, {}} /\ UNCHANGED msgs
    BY <1>6 DEF ShutdownSocket, ShutdownSignal, Listen, ReceiverEnds, NotApp, chromeVars,
       WsPanics
  <2>2. QED BY <1>1, <1>2, <2>1 DEF HappensAround
<1>7. QED
  BY <1>1, <1>2, <1>3, <1>4, <1>5, <1>6 DEF Environment

-----------------------------------------------------------------------------
(* Each part of the invariant is kept.                                     *)

LEMMA CalmNext ==
  ASSUME Undisturbed, IInv, CalmInv, [Next]_vars
  PROVE  Calm'
<1>0. Calm
  BY DEF CalmInv
<1>1. ASSUME NEW c \in Callers,
             CallerStep(c) \/ \E d \in {"target", "browser"} : StartCall(c, d)
      PROVE  Calm'
  <2>1. CallerMove(c) /\ OthersKeep(c)
    BY <1>1, CallerKeepsOthers
  <2>2. pc'[c] \notin {"expired", "expiredT", "panicked"}
    BY <2>1 DEF CallerMove, Walks, Files, Asks, Hears, Finishes, TakesBack
  <2>3. QED BY <1>0, <2>1, <2>2 DEF Calm, OthersKeep
<1>2. CASE LoopStep
  <2>1. LoopMove /\ UNCHANGED <<pc, deadRx>>
    BY <1>2, LoopMoves
  <2>2. UNCHANGED poisoned /\ loop' # "panicked"
        /\ (open' <=> loop' \notin {"cancel", "clear", "done"})
    BY <1>0, <2>1 DEF LoopMove, Delivers, CancelsAll, GoesOn, Calm, Early
  <2>3. QED BY <1>0, <2>1, <2>2 DEF Calm
<1>3. CASE Environment
  BY <1>0, <1>3, EnvironmentMoves DEF Calm
<1>4. CASE UNCHANGED vars
  BY <1>0, <1>4 DEF vars, callerVars, routeVars, Calm
<1>5. QED
  BY <1>1, <1>2, <1>3, <1>4, NextCases

LEMMA HeadOfAppend ==
  ASSUME NEW S, NEW s \in Seq(S), NEW x \in S
  PROVE  /\ Append(s, x) # <<>>
         /\ s # <<>> => Head(Append(s, x)) = Head(s)
         /\ s = <<>> => Head(Append(s, x)) = x
OBVIOUS

(* What a channel has heard first, it has heard.                           *)
LEMMA OkStays ==
  ASSUME IInv, NEW f \in Frames, NEW x \in Answer \cup {Closed},
         inbox'[f] = inbox[f] \/ inbox'[f] = Append(inbox[f], x), IsOk(inbox[f])
  PROVE  IsOk(inbox'[f])
<1>1. inbox[f] \in Seq(Answer \cup {Closed})
  BY DEF IInv, TypeOK
<1>2. QED BY <1>1, HeadOfAppend DEF IsOk

LEMMA HoldsEntryCaller ==
  ASSUME IInv, CalmInv, NEW c \in Callers, CallerMove(c), OthersKeep(c)
  PROVE  HoldsEntry'
<1>0. /\ HoldsEntry /\ Shape /\ RegistryInv
      /\ callId \in [Frames -> Nat \cup {None}] /\ nextId \in Nat
  BY DEF IInv, CalmInv, TypeOK
<1>1. SUFFICES ASSUME NEW k \in Callers
      PROVE  /\ pc'[k] \in {"send", "unregister"} => [id |-> callId'[B(k)], rx |-> B(k)] \in calls'
             /\ callId'[T(k)] # None => \/ [id |-> callId'[T(k)], rx |-> T(k)] \in calls'
                                        \/ pc'[k] = "waitT"
                                        \/ pc'[k] = "wait" /\ IsOk(inbox'[B(k)])
  BY DEF HoldsEntry, Nested, Entry, Accepted
<1>2. /\ pc[k] \in {"send", "unregister"} => Entry(B(k)) \in calls /\ callId[B(k)] # None
      /\ callId[T(k)] # None => \/ Entry(T(k)) \in calls
                                \/ pc[k] = "waitT"
                                \/ pc[k] = "wait" /\ IsOk(inbox[B(k)])
  BY <1>0 DEF HoldsEntry, Shape, Nested, Accepted
<1>3. CASE k # c
  <2>1. T(k) \in Frames \ OwnFrames(c) /\ B(k) \in Frames \ OwnFrames(c)
    BY <1>3, FramesApart DEF OwnFrames
  <2>2. pc'[k] = pc[k]
    BY <1>3 DEF OthersKeep
  <2>3. /\ callId'[T(k)] = callId[T(k)] /\ callId'[B(k)] = callId[B(k)]
        /\ inbox'[B(k)] = inbox[B(k)]
        /\ callId[T(k)] # None /\ Entry(T(k)) \in calls => Entry(T(k)) \in calls'
        /\ callId[B(k)] # None /\ Entry(B(k)) \in calls => Entry(B(k)) \in calls'
    BY <2>1 DEF OthersKeep
  <2>4. QED BY <1>2, <2>2, <2>3 DEF Entry
<1>4. CASE k = c
  <2>f. T(c) \in Frames /\ B(c) \in Frames /\ T(c) # B(c)
    BY FrameFacts
  <2>s. /\ callId[B(c)] # None <=> pc[c] \in {"send", "unregister", "wait", "expired"}
        /\ pc[c] \in {"check", "unregisterT", "waitT", "expiredT"} => callId[T(c)] # None
        /\ pc[c] \in {"idle", "registerT", "panicked"} => callId[T(c)] = None
    BY <1>0 DEF Shape, Nested
  <2>1. CASE Walks(c)
    BY <1>2, <1>4, <2>1, <2>s DEF Walks, Entry
  <2>2. CASE Asks(c)
    BY <1>2, <1>4, <2>2 DEF Asks, Entry
  <2>3. CASE Files(c)
    <3>1. CASE pc[c] = "registerT" /\ pc'[c] = "check" /\ RegisterCall(T(c))
      <4>1. callId'[T(c)] = nextId /\ [id |-> nextId, rx |-> T(c)] \in calls'
        BY <1>0, <2>f, <3>1 DEF RegisterCall
      <4>2. QED BY <1>4, <3>1, <4>1
    <3>2. CASE pc[c] = "register" /\ pc'[c] = "send" /\ RegisterCall(B(c))
      <4>1. callId'[B(c)] = nextId /\ [id |-> nextId, rx |-> B(c)] \in calls'
            /\ callId'[T(c)] = callId[T(c)]
        BY <1>0, <2>f, <3>2 DEF RegisterCall
      <4>2. callId[T(c)] # None => callId[T(c)] # nextId
        BY <1>0, <2>f DEF RegistryInv, IdsBelowNext
      <4>3. Entry(T(c)).id = callId[T(c)]
        BY DEF Entry
      <4>4. callId[T(c)] # None => Entry(T(c)) \in calls'
        BY <1>2, <1>4, <3>2, <4>2, <4>3 DEF RegisterCall, Removed
      <4>5. QED BY <1>4, <3>2, <4>1, <4>4 DEF Entry
    <3>3. QED BY <2>3, <3>1, <3>2 DEF Files
  <2>4. CASE Hears(c)
    <3>1. callId'[T(c)] = callId[T(c)]
      BY <2>4, <2>f DEF Hears, DropReceivers
    <3>2. UNCHANGED calls /\ pc[c] = "wait"
          /\ pc'[c] = IF ~Nested(c) THEN "idle" ELSE IF Accepted(c) THEN "waitT" ELSE "unregisterT"
      BY <2>4 DEF Hears
    <3>3. QED BY <1>2, <1>4, <3>1, <3>2 DEF Nested, Accepted, Entry
  <2>5. CASE Finishes(c)
    BY <1>4, <2>5, <2>f DEF Finishes, DropReceivers, OwnFrames
  <2>6. CASE TakesBack(c)
    <3>1. CASE /\ pc[c] = "unregister" /\ pc'[c] = IF Nested(c) THEN "unregisterT" ELSE "idle"
               /\ calls' = Removed(callId[B(c)]) /\ DropReceivers({B(c)})
      <4>1. callId'[T(c)] = callId[T(c)]
        BY <2>f, <3>1 DEF DropReceivers
      <4>2. callId[T(c)] # None => callId[T(c)] # callId[B(c)]
        BY <1>0, <2>f DEF RegistryInv, IdsDistinct
      <4>3. Entry(T(c)).id = callId[T(c)]
        BY DEF Entry
      <4>4. callId[T(c)] # None => Entry(T(c)) \in calls'
        BY <1>2, <1>4, <3>1, <4>2, <4>3 DEF Removed
      <4>5. QED BY <1>4, <3>1, <4>1, <4>4 DEF Entry
    <3>2. CASE pc'[c] = "idle" /\ DropReceivers(OwnFrames(c))
      BY <1>4, <2>f, <3>2 DEF DropReceivers, OwnFrames
    <3>3. QED BY <2>6, <3>1, <3>2 DEF TakesBack
  <2>7. QED BY <2>1, <2>2, <2>3, <2>4, <2>5, <2>6 DEF CallerMove
<1>5. QED BY <1>3, <1>4

LEMMA HoldsEntryLoop ==
  ASSUME IInv, CalmInv, LoopMove, UNCHANGED <<pc, callId>>
  PROVE  HoldsEntry'
<1>0. /\ HoldsEntry /\ Shape /\ RegistryInv /\ inbox \in [Frames -> Seq(Answer \cup {Closed})]
      /\ callId \in [Frames -> Nat \cup {None}]
  BY DEF IInv, CalmInv, TypeOK
<1>1. SUFFICES ASSUME NEW k \in Callers
      PROVE  /\ pc[k] \in {"send", "unregister"} => Entry(B(k)) \in calls'
             /\ Nested(k) => \/ Entry(T(k)) \in calls'
                             \/ pc[k] = "waitT"
                             \/ pc[k] = "wait" /\ IsOk(inbox'[B(k)])
  BY DEF HoldsEntry, Nested, Entry, Accepted
<1>2. /\ pc[k] \in {"send", "unregister"} => Entry(B(k)) \in calls
      /\ Nested(k) => \/ Entry(T(k)) \in calls
                      \/ pc[k] = "waitT"
                      \/ pc[k] = "wait" /\ IsOk(inbox[B(k)])
  BY <1>0 DEF HoldsEntry, Accepted
<1>f. T(k) \in Frames /\ B(k) \in Frames /\ T(k) # B(k)
  BY FrameFacts
<1>3. CASE GoesOn
  BY <1>2, <1>3 DEF GoesOn
<1>4. CASE CancelsAll
  <2>1. UNCHANGED calls
    BY <1>4 DEF CancelsAll, CancelOutstandingMethodCalls
  <2>2. inbox'[B(k)] = inbox[B(k)] \/ inbox'[B(k)] = Append(inbox[B(k)], Closed)
    BY <1>4, <1>f DEF CancelsAll, CancelOutstandingMethodCalls
  <2>3. IsOk(inbox[B(k)]) => IsOk(inbox'[B(k)])
    BY <1>f, <2>2, OkStays
  <2>4. QED BY <1>2, <2>1, <2>3
<1>5. CASE Delivers
  <2> DEFINE a == Head(msgs)
  <2>1. /\ 1 \in AnswersAt /\ a = msgs[1] /\ msgs # <<>> /\ loop \in Early
        /\ calls' = Removed(a.id) /\ inbox' = [inbox EXCEPT ![a.from] = Append(@, a)]
    BY <1>5 DEF Delivers, Early
  <2>2. UnderWay /\ InOrder
    BY <2>1 DEF CalmInv, Traffic
  <2>3. Live(a)
    BY <2>1, <2>2 DEF UnderWay
  <2>4. a \in Answer
    <3>1. msgs \in Seq(Message) /\ a.type = "answer"
      BY <2>1 DEF IInv, TypeOK, Message, AnswersAt
    <3>2. a \in Message
      BY <2>1, <3>1
    <3>3. QED BY <3>1, <3>2 DEF Message, Event, ConnectionShutdown
  <2>5. a.from \in Frames /\ callId[a.from] = a.id /\ a.id # None
    BY <2>3, <2>4, NoneIsNoId DEF Live, Answer
  <2>6. ASSUME NEW f \in Frames, Entry(f) \in calls, f # a.from
        PROVE  Entry(f) \in calls'
    <3>1. callId[f] # a.id
      BY <1>0, <2>5, <2>6 DEF RegistryInv, IdsDistinct
    <3>2. Entry(f).id = callId[f]
      BY DEF Entry
    <3>3. QED BY <2>1, <2>6, <3>1, <3>2 DEF Removed
  <2>7. IsOk(inbox[B(k)]) => IsOk(inbox'[B(k)])
    <3>1. inbox'[B(k)] = inbox[B(k)] \/ inbox'[B(k)] = Append(inbox[B(k)], a)
      BY <1>0, <1>f, <2>1, <2>5
    <3> HIDE DEF a
    <3>2. QED BY <1>f, <2>4, <3>1, OkStays
  <2>8. pc[k] \in {"send", "unregister"} => B(k) # a.from
    BY <2>3 DEF Live
  <2>9. a.from = T(k) => pc[k] = "waitT" \/ (pc[k] = "wait" /\ Accepted(k))
    <3>1. SUFFICES ASSUME a.from = T(k), pc[k] # "waitT", ~Accepted(k) PROVE FALSE
      BY <2>3 DEF Live
    <3>2. PICK j \in AnswersAt : j < 1 /\ OkAt(j, k)
      BY <2>1, <2>2, <3>1 DEF InOrder
    <3>3. j \in DOMAIN msgs /\ msgs \in Seq(Message)
      BY <3>2 DEF AnswersAt, IInv, TypeOK, Message
    <3>4. QED BY <3>2, <3>3
  <2> HIDE DEF a
  <2>10. QED BY <1>2, <1>f, <2>6, <2>7, <2>8, <2>9 DEF Accepted
<1>6. QED BY <1>3, <1>4, <1>5 DEF LoopMove

(* Before the cancellation a frame that is registered has heard nothing.   *)
LEMMA RegisteredIsUnanswered ==
  ASSUME IInv, loop \in Early, NEW f \in Frames, Entry(f) \in calls
  PROVE  inbox[f] = <<>>
BY DEF IInv, RegistryInv, Replies, Answered, Entry

LEMMA EntriesCaller ==
  ASSUME IInv, loop \in Early, EntriesAreLive, NEW c \in Callers, CallerMove(c), OthersKeep(c)
  PROVE  EntriesAreLive'
<1>0. /\ Shape /\ calls \in SUBSET [id : Nat, rx : Frames]
      /\ callId \in [Frames -> Nat \cup {None}] /\ nextId \in Nat
  BY DEF IInv, TypeOK
<1>f. T(c) \in Frames /\ B(c) \in Frames /\ T(c) # B(c)
  BY FrameFacts
<1>s. /\ callId[B(c)] # None <=> pc[c] \in {"send", "unregister", "wait", "expired"}
      /\ pc[c] \in {"idle", "registerT", "panicked"} => callId[T(c)] = None
  BY <1>0 DEF Shape, Nested
<1>1. \A e \in calls : /\ e.rx \in Frames /\ e.id \in Nat /\ e.id # None
                       /\ callId[e.rx] = e.id /\ e = Entry(e.rx) /\ inbox[e.rx] = <<>>
  <2>1. \A e \in calls : /\ e.rx \in Frames /\ e.id \in Nat /\ e.id # None
                         /\ callId[e.rx] = e.id /\ e = Entry(e.rx)
    BY <1>0, NoneIsNoId DEF EntriesAreLive, Entry
  <2>2. QED BY <2>1, RegisteredIsUnanswered
<1>2. SUFFICES ASSUME NEW e \in calls' PROVE callId'[e.rx] = e.id
  BY DEF EntriesAreLive
<1>3. CASE e \in calls /\ e.rx \notin OwnFrames(c)
  BY <1>1, <1>3 DEF OthersKeep
<1>4. CASE Walks(c) \/ Asks(c)
  BY <1>1, <1>4 DEF Walks, Asks
<1>5. CASE Files(c)
  <2>1. PICK f \in OwnFrames(c) : callId[f] = None /\ RegisterCall(f)
    BY <1>5, <1>s DEF Files, OwnFrames
  <2>2. e \in calls \/ e = [id |-> nextId, rx |-> f]
    BY <2>1 DEF RegisterCall, Removed
  <2>3. \A g \in Frames : callId'[g] = IF g = f THEN nextId ELSE callId[g]
    BY <1>0, <2>1 DEF RegisterCall
  <2>4. f \in Frames
    BY <1>f DEF OwnFrames
  <2>5. QED BY <1>1, <2>1, <2>2, <2>3, <2>4
<1>6. CASE Hears(c) /\ e.rx \in OwnFrames(c)
  BY <1>1, <1>6, <1>f DEF Hears, DropReceivers, OwnFrames
<1>7. CASE Finishes(c) /\ e.rx \in OwnFrames(c)
  BY <1>1, <1>7, <1>s DEF Finishes, OwnFrames
<1>8. CASE TakesBack(c) /\ e.rx \in OwnFrames(c)
  <2>1. CASE /\ pc[c] = "unregister" /\ calls' = Removed(callId[B(c)]) /\ DropReceivers({B(c)})
    <3>1. e \in calls /\ e.rx = T(c)
      BY <1>1, <1>8, <2>1 DEF Removed, OwnFrames
    <3>2. QED BY <1>1, <1>f, <2>1, <3>1 DEF DropReceivers
  <2>2. CASE /\ pc[c] = "unregisterT" /\ calls' = Removed(callId[T(c)])
    <3>1. e \in calls /\ e.rx = B(c)
      BY <1>1, <1>8, <2>2 DEF Removed, OwnFrames
    <3>2. QED BY <1>1, <1>s, <2>2, <3>1
  <2>3. QED BY <1>8, <2>1, <2>2 DEF TakesBack
<1>9. e \in calls \/ Files(c)
  BY DEF CallerMove, Walks, Files, Asks, Hears, Finishes, TakesBack, Removed
<1>10. QED
  BY <1>3, <1>4, <1>5, <1>6, <1>7, <1>8, <1>9 DEF CallerMove

(* A target whose answer is owed or on its way when SendMessageToTarget is *)
(* answered: the message was accepted.                                     *)
LEMMA TargetIsHeard ==
  ASSUME IInv, loop \in Early, Traffic, NEW c \in Callers,
         pc[c] = "wait", inbox[B(c)] # <<>>,
         \/ \E r \in owed : r.from = T(c)
         \/ \E i \in AnswersAt : msgs[i].from = T(c)
  PROVE  Accepted(c)
<1>1. SUFFICES ASSUME ~Accepted(c) PROVE FALSE
  OBVIOUS
<1>2. \/ \E r \in owed : r.from = B(c)
      \/ \E j \in AnswersAt : OkAt(j, c)
  BY <1>1 DEF Traffic, InOrder
<1>3. Entry(B(c)) \in calls
  BY <1>2 DEF Traffic, UnderWay, Live, OkAt
<1>4. QED BY <1>3, FrameFacts, RegisteredIsUnanswered

WillLive(x) ==
  /\ callId'[x.from] = x.id /\ [id |-> callId'[x.from], rx |-> x.from] \in calls'
  /\ \A c \in Callers : /\ x.from = B(c) => pc'[c] = "wait"
                        /\ x.from = T(c) => pc'[c] \in {"wait", "waitT"}

(* What is under way is a request or an answer: it has an id and a frame.  *)
LEMMA UnderWayTyped ==
  ASSUME IInv
  PROVE  /\ \A r \in owed : r.from \in Frames /\ r.id \in Nat /\ r.id # None
         /\ \A i \in AnswersAt : /\ msgs[i] \in Answer /\ msgs[i].from \in Frames
                                 /\ msgs[i].id \in Nat /\ msgs[i].id # None
<1>1. \A r \in owed : r.from \in Frames /\ r.id \in Nat
  BY DEF IInv, TypeOK, Request
<1>2. \A i \in AnswersAt : msgs[i] \in Answer
  <2>1. \A i \in AnswersAt : msgs[i] \in Message /\ msgs[i].type = "answer"
    BY DEF AnswersAt, IInv, TypeOK, Message
  <2>2. QED BY <2>1 DEF Message, Event, ConnectionShutdown
<1>3. QED BY <1>1, <1>2, NoneIsNoId DEF Answer

(* A caller's own step leaves what it has under way with its frames.       *)
LEMMA LiveCaller ==
  ASSUME IInv, loop \in Early, Traffic, NEW c \in Callers, CallerMove(c), OthersKeep(c),
         NEW x, Live(x), x.from \in Frames, x.id # None,
         x \in owed \/ \E i \in AnswersAt : x = msgs[i]
  PROVE  WillLive(x)
<1>0. callId \in [Frames -> Nat \cup {None}] /\ Shape
  BY DEF IInv, TypeOK
<1>f. T(c) \in Frames /\ B(c) \in Frames /\ T(c) # B(c)
  BY FrameFacts
<1>1. CASE x.from \notin OwnFrames(c)
  <2>1. callId'[x.from] = x.id /\ Entry(x.from) \in calls' /\ callId'[x.from] = callId[x.from]
    BY <1>1 DEF OthersKeep, Live
  <2>2. ASSUME NEW k \in Callers, x.from = B(k) \/ x.from = T(k) PROVE pc'[k] = pc[k]
    BY <1>1, <2>2 DEF OwnFrames, OthersKeep
  <2>3. QED BY <2>1, <2>2 DEF WillLive, Live, Entry
<1>2. CASE x.from = B(c)
  <2>1. pc[c] = "wait" /\ Entry(B(c)) \in calls
    BY <1>2 DEF Live
  <2>2. inbox[B(c)] = <<>>
    BY <1>f, <2>1, RegisteredIsUnanswered
  <2>3. QED
    BY <2>1, <2>2 DEF CallerMove, Walks, Files, Asks, Hears, Finishes, TakesBack
<1>3. CASE x.from = T(c)
  <2>1. pc[c] \in {"wait", "waitT"} /\ Entry(T(c)) \in calls /\ Nested(c)
    BY <1>3 DEF Live, Nested
  <2>2. inbox[T(c)] = <<>>
    BY <1>f, <2>1, RegisteredIsUnanswered
  <2>3. Hears(c)
    BY <2>1, <2>2 DEF CallerMove, Walks, Files, Asks, Hears, Finishes, TakesBack
  <2>4. Accepted(c)
    BY <1>3, <2>3, TargetIsHeard DEF Hears
  <2>5. pc'[c] = "waitT" /\ callId'[T(c)] = callId[T(c)] /\ UNCHANGED calls
    BY <1>f, <2>1, <2>3, <2>4 DEF Hears, DropReceivers
  <2>6. \A k \in Callers : x.from # B(k) /\ (x.from = T(k) => k = c)
    BY <1>3, FramesApart
  <2>7. QED BY <1>3, <2>5, <2>6 DEF WillLive, Live, Entry
<1>4. QED BY <1>1, <1>2, <1>3 DEF OwnFrames

(* What a caller sends is new: nothing of it was under way.                *)
LEMMA NewAreLive ==
  ASSUME IInv, CalmInv, NEW c \in Callers, Asks(c), NEW r \in NewRequests(c)
  PROVE  /\ WillLive(r) /\ r.from \in OwnFrames(c)
         /\ r.from = B(c) => r.wraps = callId[T(c)]
         /\ r.from = T(c) => r.wraps = None
<1>f. T(c) \in Frames /\ B(c) \in Frames /\ T(c) # B(c)
  BY FrameFacts
<1>1. \/ r = [id |-> callId[B(c)], from |-> B(c), nth |-> made[c], wraps |-> callId[T(c)]]
      \/ /\ r = [id |-> callId[T(c)], from |-> T(c), nth |-> made[c], wraps |-> None]
         /\ Nested(c)
  BY DEF NewRequests
<1>2. /\ r.from \in OwnFrames(c) /\ r.id = callId[r.from]
      /\ r.from = T(c) => Nested(c)
      /\ r.from = B(c) => r.wraps = callId[T(c)]
      /\ r.from = T(c) => r.wraps = None
  BY <1>1, <1>f DEF OwnFrames
<1>3. pc[c] = "send" /\ pc'[c] = "wait" /\ UNCHANGED <<callId, calls>>
  BY DEF Asks
<1>4. Entry(r.from) \in calls
  BY <1>2, <1>3 DEF CalmInv, HoldsEntry, OwnFrames
<1>5. \A k \in Callers : r.from = B(k) \/ r.from = T(k) => k = c
  BY <1>2, FramesApart DEF OwnFrames
<1>6. QED BY <1>2, <1>3, <1>4, <1>5 DEF WillLive, Entry

LEMMA TrafficCaller ==
  ASSUME IInv, CalmInv, loop \in Early, NEW c \in Callers, CallerMove(c), OthersKeep(c)
  PROVE  UnderWay' /\ Single' /\ Wraps' /\ InOrder'
<1>0. Traffic /\ UNCHANGED <<msgs, loop>> /\ AnswersAt' = AnswersAt
  BY DEF CalmInv, OthersKeep, AnswersAt
<1>f. T(c) \in Frames /\ B(c) \in Frames /\ T(c) # B(c)
  BY FrameFacts
<1>1. \A r \in owed : Live(r) /\ WillLive(r) /\ r.from \in Frames
  BY <1>0, UnderWayTyped, LiveCaller DEF Traffic, UnderWay
<1>2. \A i \in AnswersAt : Live(msgs[i]) /\ WillLive(msgs[i]) /\ msgs[i].from \in Frames
  BY <1>0, UnderWayTyped, LiveCaller DEF Traffic, UnderWay
<1>3. UNCHANGED owed \/ (Asks(c) /\ owed' = owed \cup NewRequests(c))
  BY DEF CallerMove, Walks, Files, Asks, Hears, Finishes, TakesBack
<1>4. ASSUME NEW r \in owed', r \notin owed
      PROVE  /\ WillLive(r) /\ r.from \in OwnFrames(c) /\ Asks(c) /\ r \in NewRequests(c)
             /\ r.from = B(c) => r.wraps = callId[T(c)]
             /\ r.from = T(c) => r.wraps = None
  BY <1>3, <1>4, NewAreLive
<1>5. Asks(c) => /\ \A r \in owed : r.from \notin OwnFrames(c)
                 /\ \A i \in AnswersAt : msgs[i].from \notin OwnFrames(c)
  BY <1>1, <1>2 DEF Asks, Live, OwnFrames
<1>6. UnderWay'
  <2>1. \A r \in owed' : WillLive(r)
    BY <1>1, <1>4
  <2>2. QED BY <1>0, <1>2, <2>1 DEF UnderWay, Live, WillLive, Entry
<1>7. Single'
  <2>1. ASSUME NEW r \in owed', NEW q \in owed', r.from = q.from PROVE r = q
    <3>1. CASE r \in owed /\ q \in owed
      BY <1>0, <2>1, <3>1 DEF Traffic, Single
    <3>2. CASE r \notin owed /\ q \notin owed
      <4>1. r \in NewRequests(c) /\ q \in NewRequests(c)
        BY <1>4, <3>2
      <4>2. QED BY <1>f, <2>1, <4>1 DEF NewRequests
    <3>3. QED BY <1>4, <1>5, <2>1, <3>1, <3>2
  <2>2. \A r \in owed' : \A i \in AnswersAt : r.from # msgs[i].from
    BY <1>0, <1>4, <1>5 DEF Traffic, Single
  <2>3. QED BY <1>0, <2>1, <2>2 DEF Traffic, Single
<1>8. Wraps'
  <2>1. SUFFICES ASSUME NEW r \in owed', NEW k \in Callers
                 PROVE  /\ r.from = B(k) => r.wraps = callId'[T(k)]
                        /\ r.from = T(k) => r.wraps = None
    BY DEF Wraps
  <2>2. CASE r \notin owed
    <3>1. r.from = B(k) \/ r.from = T(k) => k = c
      BY <1>4, <2>2, FramesApart DEF OwnFrames
    <3>2. UNCHANGED callId
      BY <1>4, <2>2 DEF Asks
    <3>3. QED BY <1>4, <2>2, <3>1, <3>2
  <2>3. CASE r \in owed
    <3>1. /\ r.from = B(k) => r.wraps = callId[T(k)]
          /\ r.from = T(k) => r.wraps = None
      BY <1>0, <2>3 DEF Traffic, Wraps
    <3>2. r.from = B(k) => callId'[T(k)] = callId[T(k)]
      <4>1. CASE k # c
        <5>1. T(k) \in Frames \ OwnFrames(c)
          BY <4>1, FramesApart DEF OwnFrames
        <5>2. QED BY <5>1 DEF OthersKeep
      <4>2. CASE k = c /\ r.from = B(c)
        <5>1. pc[c] = "wait"
          BY <1>1, <2>3, <4>2 DEF Live
        <5>2. Hears(c)
          BY <5>1 DEF CallerMove, Walks, Files, Asks, Hears, Finishes, TakesBack
        <5>3. QED BY <1>f, <4>2, <5>2 DEF Hears, DropReceivers
      <4>3. QED BY <4>1, <4>2
    <3>3. QED BY <3>1, <3>2
  <2>4. QED BY <2>2, <2>3
<1>9. InOrder'
  <2>1. SUFFICES ASSUME NEW k \in Callers, pc'[k] # "waitT", ~IsOk(inbox'[B(k)])
                 PROVE  /\ (\E r \in owed' : r.from = T(k)) =>
                             \/ \E r \in owed' : r.from = B(k)
                             \/ \E j \in AnswersAt : OkAt(j, k)
                        /\ \A i \in AnswersAt :
                             msgs[i].from = T(k) => \E j \in AnswersAt : j < i /\ OkAt(j, k)
    BY <1>0 DEF InOrder, Accepted, OkAt
  <2>2. CASE k # c
    <3>1. B(k) \in Frames \ OwnFrames(c) /\ T(k) \notin OwnFrames(c)
      BY <2>2, FramesApart DEF OwnFrames
    <3>2. pc[k] # "waitT" /\ ~Accepted(k)
      BY <2>1, <2>2, <3>1 DEF OthersKeep, Accepted
    <3>3. \A r \in owed' : r.from = T(k) => r \in owed
      BY <1>4, <3>1
    <3>4. owed \subseteq owed'
      BY <1>3
    <3>5. QED BY <1>0, <3>2, <3>3, <3>4 DEF Traffic, InOrder
  <2>3. CASE k = c /\ Asks(c)
    <3>1. [id |-> callId[B(c)], from |-> B(c), nth |-> made[c], wraps |-> callId[T(c)]] \in owed'
      BY <2>3 DEF Asks, NewRequests
    <3>2. \E r \in owed' : r.from = B(c)
      BY <3>1
    <3>3. QED BY <1>5, <2>3, <3>2 DEF OwnFrames
  <2>4. CASE k = c /\ ~Asks(c)
    <3>1. SUFFICES ASSUME \/ \E r \in owed : r.from = T(c)
                          \/ \E i \in AnswersAt : msgs[i].from = T(c)
                   PROVE  FALSE
      BY <1>3, <2>4
    <3>2. pc'[c] \in {"wait", "waitT"} /\ pc[c] \in {"wait", "waitT"} /\ Entry(T(c)) \in calls
      BY <1>1, <1>2, <3>1 DEF Live, WillLive
    <3>3. inbox[T(c)] = <<>>
      BY <1>f, <3>2, RegisteredIsUnanswered
    <3>4. pc'[c] = "wait"
      BY <2>1, <2>4, <3>2
    <3>5. QED
      BY <2>4, <3>2, <3>3, <3>4 DEF CallerMove, Walks, Files, Asks, Hears, Finishes, TakesBack
  <2>5. QED BY <2>2, <2>3, <2>4
<1>10. QED BY <1>6, <1>7, <1>8, <1>9

(* The queue after an arrival, and after its head is taken.                *)
LEMMA AppendedAnswers ==
  ASSUME IInv, NEW m \in Message, msgs' = Append(msgs, m)
  PROVE  /\ \A i \in AnswersAt : i \in AnswersAt' /\ msgs'[i] = msgs[i] /\ i < Len(msgs) + 1
         /\ \A i \in AnswersAt' : \/ i \in AnswersAt
                                  \/ m.type = "answer" /\ i = Len(msgs) + 1
         /\ msgs'[Len(msgs) + 1] = m
         /\ m.type = "answer" => Len(msgs) + 1 \in AnswersAt'
<1>1. msgs \in Seq(Message)
  BY DEF IInv, TypeOK, Message
<1>2. \A i \in DOMAIN msgs : i \in DOMAIN msgs' /\ msgs'[i] = msgs[i] /\ i < Len(msgs) + 1
  BY <1>1
<1>3. \A i \in DOMAIN msgs' : i \in DOMAIN msgs \/ i = Len(msgs) + 1
  BY <1>1
<1>4. msgs'[Len(msgs) + 1] = m /\ Len(msgs) + 1 \in DOMAIN msgs'
  BY <1>1
<1>5. QED BY <1>2, <1>3, <1>4 DEF AnswersAt

LEMMA ShiftedAnswers ==
  ASSUME IInv, msgs # <<>>, msgs' = Tail(msgs)
  PROVE  /\ \A i \in AnswersAt' : i + 1 \in AnswersAt /\ i + 1 # 1 /\ msgs'[i] = msgs[i + 1]
         /\ \A j \in AnswersAt : j # 1 => j - 1 \in AnswersAt' /\ msgs'[j - 1] = msgs[j]
         /\ AnswersAt \subseteq Nat /\ AnswersAt' \subseteq Nat
<1>1. msgs \in Seq(Message)
  BY DEF IInv, TypeOK, Message
<1>2. \A i \in DOMAIN msgs' : /\ i + 1 \in DOMAIN msgs /\ i + 1 # 1 /\ i \in Nat
                              /\ msgs'[i] = msgs[i + 1]
  BY <1>1
<1>3. \A j \in DOMAIN msgs : /\ j \in Nat
                             /\ j # 1 => j - 1 \in DOMAIN msgs' /\ msgs'[j - 1] = msgs[j]
  BY <1>1
<1>4. QED BY <1>2, <1>3 DEF AnswersAt

LEMMA TrafficAnswered ==
  ASSUME Undisturbed, IInv, Traffic, loop \in Early, AnswersOne,
         UNCHANGED <<pc, callId, calls, inbox>>
  PROVE  Traffic'
<1>1. PICK r \in owed, ok \in BOOLEAN :
        /\ MayAnswer(r, ok)
        /\ owed' = {q \in owed : q # r /\ (ok \/ q.id # r.wraps)}
        /\ msgs' = Append(msgs, AnswerTo(r, ok))
  BY DEF AnswersOne, Early
<1> DEFINE a == AnswerTo(r, ok)
           n == Len(msgs) + 1
<1>2. /\ a.type = "answer" /\ a.id = r.id /\ a.from = r.from /\ a.ok = ok
      /\ a \in Message
  BY DEF AnswerTo, IInv, TypeOK, Request, Message, Answer
<1>3. /\ \A i \in AnswersAt : i \in AnswersAt' /\ msgs'[i] = msgs[i] /\ i < n
      /\ \A i \in AnswersAt' : i \in AnswersAt \/ i = n
      /\ msgs'[n] = a /\ n \in AnswersAt'
  BY <1>1, <1>2, AppendedAnswers
<1> HIDE DEF a, n
<1>4. owed' \subseteq owed /\ \A q \in owed' : q.from # r.from
  BY <1>1 DEF Traffic, Single
<1>5. EntriesAreLive'
  BY DEF Traffic, EntriesAreLive
<1>6. UnderWay'
  <2>1. \A x : Live(x) => WillLive(x)
    BY DEF Live, WillLive, Entry
  <2>2. \A q \in owed' : WillLive(q)
    BY <1>4, <2>1 DEF Traffic, UnderWay
  <2>3. Live(a)
    BY <1>2 DEF Traffic, UnderWay, Live
  <2>4. \A i \in AnswersAt' : WillLive(msgs'[i])
    BY <1>3, <2>1, <2>3 DEF Traffic, UnderWay
  <2>5. QED BY <2>2, <2>4 DEF UnderWay, Live, WillLive, Entry
<1>7. Single'
  <2>1. \A q \in owed' : \A p \in owed' : q.from = p.from => q = p
    BY <1>4 DEF Traffic, Single
  <2>2. \A i \in AnswersAt : msgs[i].from # r.from
    BY DEF Traffic, Single
  <2>3. \A i \in AnswersAt' : \A j \in AnswersAt' : msgs'[i].from = msgs'[j].from => i = j
    BY <1>2, <1>3, <2>2 DEF Traffic, Single
  <2>4. \A q \in owed' : \A i \in AnswersAt' : q.from # msgs'[i].from
    BY <1>2, <1>3, <1>4 DEF Traffic, Single
  <2>5. QED BY <2>1, <2>3, <2>4 DEF Single
<1>8. Wraps'
  BY <1>4 DEF Traffic, Wraps
<1>9. InOrder'
  <2>1. SUFFICES ASSUME NEW k \in Callers, pc[k] # "waitT", ~Accepted(k)
                 PROVE  /\ (\E q \in owed' : q.from = T(k)) =>
                             \/ \E q \in owed' : q.from = B(k)
                             \/ \E j \in AnswersAt' : msgs'[j].from = B(k) /\ msgs'[j].ok
                        /\ \A i \in AnswersAt' : msgs'[i].from = T(k) =>
                             \E j \in AnswersAt' : j < i /\ msgs'[j].from = B(k) /\ msgs'[j].ok
    BY DEF InOrder, Accepted, OkAt
  <2>2. /\ (\E q \in owed : q.from = T(k)) =>
             \/ \E q \in owed : q.from = B(k)
             \/ \E j \in AnswersAt : OkAt(j, k)
        /\ \A i \in AnswersAt :
             msgs[i].from = T(k) => \E j \in AnswersAt : j < i /\ OkAt(j, k)
    BY <2>1 DEF Traffic, InOrder
  <2>3. ASSUME NEW j \in AnswersAt, OkAt(j, k)
        PROVE  j \in AnswersAt' /\ msgs'[j].from = B(k) /\ msgs'[j].ok
    BY <1>3, <2>3 DEF OkAt
  <2>4. ASSUME NEW t \in owed', t.from = T(k)
        PROVE  \/ \E q \in owed' : q.from = B(k)
               \/ \E j \in AnswersAt' : msgs'[j].from = B(k) /\ msgs'[j].ok
    <3>1. CASE \E j \in AnswersAt : OkAt(j, k)
      BY <2>3, <3>1
    <3>2. ASSUME NEW q \in owed, q.from = B(k), q \notin owed'
          PROVE  \E j \in AnswersAt' : msgs'[j].from = B(k) /\ msgs'[j].ok
      <4>1. CASE q = r
        <5>1. r.wraps = callId[T(k)] /\ t.id = callId[T(k)]
          BY <1>4, <2>4, <3>2, <4>1 DEF Traffic, Wraps, UnderWay, Live
        <5>2. ok
          BY <1>1, <2>4, <5>1
        <5>3. QED BY <1>2, <1>3, <3>2, <4>1, <5>2
      <4>2. CASE q # r
        <5>1. q.id = r.wraps /\ q.id = callId[B(k)] /\ q.id # None
          BY <1>1, <3>2, <4>2, UnderWayTyped DEF Traffic, UnderWay, Live
        <5>2. PICK m \in Callers : r.from = T(m) \/ r.from = B(m)
          BY UnderWayTyped, FrameOf
        <5>3. r.wraps = callId[T(m)]
          BY <5>1, <5>2 DEF Traffic, Wraps
        <5>4. T(m) = B(k)
          <6>1. T(m) \in Frames /\ B(k) \in Frames
            BY FrameFacts
          <6>2. callId[T(m)] # None /\ callId[T(m)] = callId[B(k)]
            BY <5>1, <5>3
          <6>3. QED BY <6>1, <6>2 DEF IInv, RegistryInv, IdsDistinct
        <5>5. QED BY <5>4, FramesApart
      <4>3. QED BY <4>1, <4>2
    <3>3. QED BY <1>4, <2>2, <2>4, <3>1, <3>2
  <2>5. ASSUME NEW i \in AnswersAt', msgs'[i].from = T(k)
        PROVE  \E j \in AnswersAt' : j < i /\ msgs'[j].from = B(k) /\ msgs'[j].ok
    <3>1. CASE i \in AnswersAt
      BY <1>3, <2>2, <2>3, <2>5, <3>1
    <3>2. CASE i = n
      <4>1. r.from = T(k)
        BY <1>2, <1>3, <2>5, <3>2
      <4>2. \A q \in owed : q.from # B(k)
        BY <1>1, <4>1 DEF Traffic, Wraps, UnderWay, Live, MayAnswer, Undisturbed
      <4>3. PICK j \in AnswersAt : OkAt(j, k)
        BY <2>2, <4>1, <4>2
      <4>4. QED BY <1>3, <2>3, <3>2, <4>3
    <3>3. QED BY <1>3, <3>1, <3>2
  <2>6. QED BY <2>4, <2>5
<1>10. QED BY <1>5, <1>6, <1>7, <1>8, <1>9 DEF Traffic

LEMMA TrafficAround ==
  ASSUME IInv, Traffic, HappensAround, UNCHANGED <<pc, callId, calls, inbox>>
  PROVE  Traffic'
<1>1. /\ owed' \subseteq owed /\ (owed' = owed \/ owed' = {})
      /\ AnswersAt' = AnswersAt /\ \A i \in AnswersAt : msgs'[i] = msgs[i]
  <2>1. CASE UNCHANGED msgs
    BY <2>1 DEF HappensAround, AnswersAt
  <2>2. ASSUME NEW m \in Message, m.type # "answer", msgs' = Append(msgs, m)
        PROVE  AnswersAt' = AnswersAt /\ \A i \in AnswersAt : msgs'[i] = msgs[i]
    BY <2>2, AppendedAnswers
  <2>3. QED BY <2>1, <2>2 DEF HappensAround
<1>2. EntriesAreLive'
  BY DEF Traffic, EntriesAreLive
<1>3. UnderWay'
  <2>1. \A x : Live(x) => WillLive(x)
    BY DEF Live, WillLive, Entry
  <2>2. (\A r \in owed' : WillLive(r)) /\ \A i \in AnswersAt' : WillLive(msgs'[i])
    BY <1>1, <2>1 DEF Traffic, UnderWay
  <2>3. QED BY <2>2 DEF UnderWay, Live, WillLive, Entry
<1>4. Single' /\ Wraps'
  BY <1>1 DEF Traffic, Single, Wraps
<1>5. InOrder'
  <2>1. \A j \in AnswersAt : \A k \in Callers :
          OkAt(j, k) => msgs'[j].from = B(k) /\ msgs'[j].ok
    BY <1>1 DEF OkAt
  <2>2. QED BY <1>1, <2>1 DEF Traffic, InOrder, Accepted, OkAt
<1>6. QED BY <1>2, <1>3, <1>4, <1>5 DEF Traffic

(* The queue loses its head and nothing else of what is under way; an      *)
(* answer at its head goes to its frame.                                   *)
LEMMA TrafficTaken ==
  ASSUME IInv, Traffic, loop \in Early, msgs # <<>>, msgs' = Tail(msgs),
         UNCHANGED <<pc, callId, owed>>,
         \/ 1 \notin AnswersAt /\ UNCHANGED <<calls, inbox>>
         \/ /\ 1 \in AnswersAt /\ calls' = Removed(msgs[1].id)
            /\ inbox' = [inbox EXCEPT ![msgs[1].from] = Append(@, msgs[1])]
  PROVE  Traffic'
<1>0. /\ calls \in SUBSET [id : Nat, rx : Frames]
      /\ inbox \in [Frames -> Seq(Answer \cup {Closed})]
      /\ callId \in [Frames -> Nat \cup {None}] /\ IdsDistinct
  BY DEF IInv, TypeOK, RegistryInv
<1>1. /\ \A i \in AnswersAt' : i + 1 \in AnswersAt /\ i + 1 # 1 /\ msgs'[i] = msgs[i + 1]
      /\ \A j \in AnswersAt : j # 1 => j - 1 \in AnswersAt' /\ msgs'[j - 1] = msgs[j]
      /\ AnswersAt \subseteq Nat /\ AnswersAt' \subseteq Nat
  BY ShiftedAnswers
<1>2. calls' \subseteq calls
  BY DEF Removed
<1>3. EntriesAreLive'
  BY <1>2 DEF Traffic, EntriesAreLive
<1>4. ASSUME NEW x, Live(x), x.from \in Frames, x.id # None,
             1 \in AnswersAt => x.from # msgs[1].from
      PROVE  WillLive(x)
  <2>1. 1 \in AnswersAt => callId[msgs[1].from] = msgs[1].id /\ msgs[1].from \in Frames
    BY UnderWayTyped DEF Traffic, UnderWay, Live
  <2>2. 1 \in AnswersAt => x.id # msgs[1].id
    BY <1>0, <1>4, <2>1 DEF Live, IdsDistinct
  <2>3. Entry(x.from).id = x.id /\ Entry(x.from) \in calls
    BY <1>4 DEF Live, Entry
  <2>4. Entry(x.from) \in calls'
    BY <2>2, <2>3 DEF Removed
  <2>5. QED BY <1>4, <2>4 DEF Live, WillLive, Entry
<1>5. UnderWay'
  <2>1. \A r \in owed : WillLive(r)
    BY <1>4, UnderWayTyped DEF Traffic, UnderWay, Single
  <2>2. \A i \in AnswersAt' : WillLive(msgs'[i])
    <3>1. SUFFICES ASSUME NEW i \in AnswersAt' PROVE WillLive(msgs[i + 1])
      BY <1>1
    <3>2. i + 1 \in AnswersAt /\ (1 \in AnswersAt => msgs[i + 1].from # msgs[1].from)
      BY <1>1 DEF Traffic, Single
    <3>3. QED BY <1>4, <3>2, UnderWayTyped DEF Traffic, UnderWay
  <2>3. QED BY <2>1, <2>2 DEF UnderWay, Live, WillLive, Entry
<1>6. Single'
  <2>1. ASSUME NEW i \in AnswersAt', NEW j \in AnswersAt', msgs'[i].from = msgs'[j].from
        PROVE  i = j
    <3>0. i + 1 \in AnswersAt /\ j + 1 \in AnswersAt /\ msgs[i + 1].from = msgs[j + 1].from
      BY <1>1, <2>1
    <3>1. i + 1 = j + 1
      BY <3>0 DEF Traffic, Single
    <3>2. i \in Nat /\ j \in Nat
      BY <1>1
    <3>3. QED BY <3>1, <3>2
  <2>2. ASSUME NEW r \in owed, NEW i \in AnswersAt' PROVE r.from # msgs'[i].from
    <3>1. i + 1 \in AnswersAt /\ msgs'[i] = msgs[i + 1]
      BY <1>1
    <3>2. QED BY <3>1 DEF Traffic, Single
  <2>3. QED BY <2>1, <2>2 DEF Traffic, Single
<1>7. Wraps'
  BY DEF Traffic, Wraps
<1>8. InOrder'
  <2>1. SUFFICES ASSUME NEW k \in Callers, pc[k] # "waitT", ~IsOk(inbox'[B(k)])
                 PROVE  /\ (\E q \in owed : q.from = T(k)) =>
                             \/ \E q \in owed : q.from = B(k)
                             \/ \E j \in AnswersAt' : msgs'[j].from = B(k) /\ msgs'[j].ok
                        /\ \A i \in AnswersAt' : msgs'[i].from = T(k) =>
                             \E j \in AnswersAt' : j < i /\ msgs'[j].from = B(k) /\ msgs'[j].ok
    BY DEF InOrder, Accepted, OkAt
  <2>f. B(k) \in Frames
    BY FrameFacts
  <2>2. ~OkAt(1, k)
    <3>1. SUFFICES ASSUME OkAt(1, k) PROVE IsOk(inbox'[B(k)])
      BY <2>1
    <3>2. 1 \in AnswersAt /\ msgs[1].from = B(k) /\ msgs[1].ok /\ msgs[1] \in Answer
      BY <3>1, UnderWayTyped DEF OkAt
    <3>3. inbox[B(k)] = <<>>
      BY <2>f, <3>2, RegisteredIsUnanswered DEF Traffic, UnderWay, Live
    <3>4. inbox'[B(k)] = Append(<<>>, msgs[1])
      BY <1>0, <2>f, <3>2, <3>3
    <3>5. Head(Append(<<>>, msgs[1])) = msgs[1] /\ Append(<<>>, msgs[1]) # <<>>
      OBVIOUS
    <3>6. msgs[1] # Closed
      BY <3>2 DEF Answer, Closed
    <3>7. QED BY <3>2, <3>4, <3>5, <3>6 DEF IsOk
  <2>3. ~Accepted(k)
    <3>1. SUFFICES ASSUME IsOk(inbox[B(k)]) PROVE IsOk(inbox'[B(k)])
      BY <2>1 DEF Accepted
    <3>2. CASE inbox'[B(k)] = inbox[B(k)]
      BY <3>1, <3>2
    <3>3. CASE 1 \in AnswersAt /\ inbox'[B(k)] = Append(inbox[B(k)], msgs[1])
      BY <2>f, <3>1, <3>3, UnderWayTyped, OkStays
    <3>4. QED BY <1>0, <2>f, <3>2, <3>3
  <2>4. /\ (\E q \in owed : q.from = T(k)) =>
             \/ \E q \in owed : q.from = B(k)
             \/ \E j \in AnswersAt : OkAt(j, k)
        /\ \A i \in AnswersAt :
             msgs[i].from = T(k) => \E j \in AnswersAt : j < i /\ OkAt(j, k)
    BY <2>1, <2>3 DEF Traffic, InOrder
  <2>5. ASSUME NEW j \in AnswersAt, OkAt(j, k)
        PROVE  j - 1 \in AnswersAt' /\ msgs'[j - 1].from = B(k) /\ msgs'[j - 1].ok
    BY <1>1, <2>2, <2>5 DEF OkAt
  <2>6. ASSUME NEW i \in AnswersAt', msgs'[i].from = T(k)
        PROVE  \E j \in AnswersAt' : j < i /\ msgs'[j].from = B(k) /\ msgs'[j].ok
    <3>1. PICK j \in AnswersAt : j < i + 1 /\ OkAt(j, k)
      BY <1>1, <2>4, <2>6
    <3>2. j - 1 < i
      BY <1>1, <3>1
    <3>3. QED BY <2>5, <3>1, <3>2
  <2>7. QED BY <2>4, <2>5, <2>6
<1>9. QED BY <1>3, <1>5, <1>6, <1>7, <1>8 DEF Traffic

LEMMA TrafficNext ==
  ASSUME Undisturbed, IInv, CalmInv, [Next]_vars, loop' \in Early
  PROVE  Traffic'
<1>0. loop \in Early /\ Traffic
  BY NextRegistryStep DEF IInv, CalmInv
<1>1. ASSUME NEW c \in Callers,
             CallerStep(c) \/ \E d \in {"target", "browser"} : StartCall(c, d)
      PROVE  Traffic'
  BY <1>0, <1>1, CallerKeepsOthers, EntriesCaller, TrafficCaller DEF Traffic
<1>2. CASE LoopStep
  <2>1. LoopMove /\ UNCHANGED <<pc, callId, owed>>
    BY <1>2, LoopMoves
  <2>2. CASE Delivers
    BY <1>0, <2>1, <2>2, TrafficTaken DEF Delivers
  <2>3. CASE CancelsAll
    BY <2>3 DEF CancelsAll, Early
  <2>4. CASE GoesOn /\ UNCHANGED msgs
    <3>1. HappensAround /\ UNCHANGED <<calls, inbox>>
      BY <2>1, <2>4 DEF GoesOn, HappensAround
    <3>2. QED BY <1>0, <2>1, <3>1, TrafficAround
  <2>5. CASE GoesOn /\ msgs # <<>> /\ Head(msgs).type # "answer" /\ msgs' = Tail(msgs)
    <3>1. msgs \in Seq(Message)
      BY DEF IInv, TypeOK, Message
    <3>2. 1 \notin AnswersAt
      BY <2>5, <3>1 DEF AnswersAt
    <3>3. QED BY <1>0, <2>1, <2>5, <3>2, TrafficTaken DEF GoesOn
  <2>6. QED BY <2>1, <2>2, <2>3, <2>4, <2>5 DEF LoopMove, GoesOn, Early
<1>3. CASE Environment
  BY <1>0, <1>3, EnvironmentMoves, TrafficAnswered, TrafficAround
<1>4. CASE UNCHANGED vars
  <2>1. HappensAround /\ UNCHANGED <<pc, callId, calls, inbox>>
    BY <1>4 DEF vars, callerVars, chromeVars, HappensAround
  <2>2. QED BY <1>0, <2>1, TrafficAround
<1>5. QED
  BY <1>1, <1>2, <1>3, <1>4, NextCases

LEMMA CalmInit == Init => CalmInv
<1> SUFFICES ASSUME Init PROVE CalmInv
  OBVIOUS
<1>1. Calm
  BY DEF Init, Calm
<1>2. HoldsEntry
  BY FrameFacts DEF Init, HoldsEntry, Nested
<1>3. Traffic
  BY DEF Init, Traffic, EntriesAreLive, UnderWay, Single, Wraps, InOrder, AnswersAt
<1>4. QED BY <1>1, <1>2, <1>3 DEF CalmInv

LEMMA CalmInvNext ==
  ASSUME Undisturbed, IInv, CalmInv, [Next]_vars
  PROVE  CalmInv'
<1>1. HoldsEntry'
  <2>1. ASSUME NEW c \in Callers,
               CallerStep(c) \/ \E d \in {"target", "browser"} : StartCall(c, d)
        PROVE  HoldsEntry'
    BY <2>1, CallerKeepsOthers, HoldsEntryCaller
  <2>2. CASE LoopStep
    BY <2>2, LoopMoves, HoldsEntryLoop
  <2>3. UNCHANGED <<pc, callId, calls, inbox>> => HoldsEntry'
    BY DEF CalmInv, HoldsEntry, Nested, Entry, Accepted
  <2>4. UNCHANGED vars => UNCHANGED <<pc, callId, calls, inbox>>
    BY DEF vars, callerVars
  <2>5. QED BY <2>1, <2>2, <2>3, <2>4, EnvironmentMoves, NextCases
<1>2. QED BY <1>1, CalmNext, TrafficNext DEF CalmInv

LEMMA SpecCalm ==
  ASSUME Undisturbed
  PROVE  Spec => [](IInv /\ CalmInv)
<1>1. IInv /\ CalmInv /\ [Next]_vars => IInv' /\ CalmInv'
  BY NextIInv, CalmInvNext
<1>2. QED BY <1>1, InitIInv, CalmInit, PTL DEF Spec

(* Undisturbed, no unwrap() or expect() of the transport fails: every      *)
(* answer finds its call registered, and whoever has to unregister a call  *)
(* finds it there, also after the tail has cancelled the calls.            *)
THEOREM NothingPanics ==
  ASSUME Undisturbed
  PROVE  Spec => []NoPanic
<1>1. CalmInv => NoPanic
  BY DEF CalmInv, Calm, NoPanic
<1>2. QED BY SpecCalm, <1>1, PTL

(* Undisturbed, the loop never takes an answer whose call is unknown or    *)
(* whose caller has gone: the connection does not end by an answer.        *)
THEOREM AnswersAreExpected ==
  ASSUME Undisturbed
  PROVE  Spec => []AnswersFindTheirCall
<1>1. IInv /\ CalmInv => AnswersFindTheirCall
  <2> SUFFICES ASSUME IInv, CalmInv, Takes("answer")
               PROVE  \E e \in calls : e.id = Head(msgs).id /\ callId[e.rx] = e.id
    BY DEF AnswersFindTheirCall, Takes
  <2> DEFINE a     == Head(msgs)
             entry == CHOOSE e \in calls : e.id = a.id
  <2>1. Registered(a.id) /\ entry.rx = a.from /\ callId[a.from] = a.id
    BY AnswerFindsFrame
  <2>2. entry \in calls /\ entry.id = a.id
    BY <2>1 DEF Registered
  <2> HIDE DEF entry
  <2>3. QED BY <2>1, <2>2
<1>2. QED BY SpecCalm, <1>1, PTL

(* Undisturbed, the registry holds no sender whose receiver is gone, as    *)
(* long as the loop runs.                                                  *)
THEOREM NoEntryIsAbandoned ==
  ASSUME Undisturbed
  PROVE  Spec => []NoAbandonedEntry
<1>1. CalmInv => NoAbandonedEntry
  BY DEF CalmInv, Traffic, EntriesAreLive, NoAbandonedEntry, Early
<1>2. QED BY SpecCalm, <1>1, PTL

-----------------------------------------------------------------------------
(* What a caller of call_method can see of its call.                       *)

(* What is in a reply channel.                                             *)
GotIn(s) == IF s = <<>> THEN "none"
            ELSE IF Head(s) = Closed THEN "end"
            ELSE IF Head(s).ok THEN "ok" ELSE "error"
Got(f) == GotIn(inbox[f])

(* A channel whose sender is registered has at most the end in it, and     *)
(* nobody has heard of the end before the loop has told it.                *)
HeardInv ==
  /\ \A f \in Frames : callId[f] # None /\ Entry(f) \in calls => Got(f) \in {"none", "end"}
  /\ loop \in Early => \A f \in Frames : Got(f) # "end"

LEMMA ChannelsHoldOne ==
  ASSUME IInv, NEW f \in Frames
  PROVE  inbox[f] = <<>> \/ \E x \in Answer \cup {Closed} : inbox[f] = <<x>>
<1>1. inbox[f] \in Seq(Answer \cup {Closed}) /\ Len(inbox[f]) <= 1
  BY DEF IInv, TypeOK, RegistryInv, Replies
<1>2. QED BY <1>1

LEMMA AnswersDiffer == \A x \in Answer : x # Closed /\ x.type = "answer" /\ x.ok \in BOOLEAN
BY DEF Answer, Closed

(* What a caller can see of its call is what its two channels hold.        *)
Sight ==
  \A c \in Callers :
    /\ HasReply(c) <=> Got(Final(c)) \in {"ok", "error"}
    /\ HasRefusal(c) <=> Nested(c) /\ Got(B(c)) = "error"
    /\ HasEnd(c) <=> Got(T(c)) = "end" \/ Got(B(c)) = "end"

LEMMA StagesRead == IInv => Sight
<1> SUFFICES ASSUME IInv, NEW c \in Callers
             PROVE  /\ HasReply(c) <=> Got(Final(c)) \in {"ok", "error"}
                    /\ HasRefusal(c) <=> Nested(c) /\ Got(B(c)) = "error"
                    /\ HasEnd(c) <=> Got(T(c)) = "end" \/ Got(B(c)) = "end"
  BY DEF Sight
<1>f. /\ T(c) \in Frames /\ B(c) \in Frames /\ Final(c) \in Frames
      /\ T(c)[1] = c /\ B(c)[1] = c /\ Final(c)[1] = c /\ T(c) # B(c)
  BY FramesApart DEF Final
<1>1. ASSUME NEW f \in Frames, inbox[f] = <<>>
      PROVE  Got(f) = "none" /\ Answers(inbox[f]) = {} /\ {inbox[f][i] : i \in DOMAIN inbox[f]} = {}
  BY <1>1 DEF Got, GotIn, Answers
<1>2. ASSUME NEW f \in Frames, inbox[f] = <<Closed>>
      PROVE  Got(f) = "end" /\ Answers(inbox[f]) = {} /\ Closed \in {inbox[f][i] : i \in DOMAIN inbox[f]}
  <2>1. DOMAIN <<Closed>> = {1} /\ <<Closed>>[1] = Closed /\ Closed.type # "answer"
        /\ <<Closed>> # <<>> /\ Head(<<Closed>>) = Closed
    BY DEF Closed
  <2>2. QED BY <1>2, <2>1 DEF Got, GotIn, Answers
<1>3. ASSUME NEW f \in Frames, NEW x \in Answer, inbox[f] = <<x>>
      PROVE  /\ Got(f) = IF x.ok THEN "ok" ELSE "error"
             /\ Answers(inbox[f]) = {x} /\ {inbox[f][i] : i \in DOMAIN inbox[f]} = {x}
             /\ x.from = f /\ x.nth = made[f[1]] /\ x # Closed
  <2>1. DOMAIN <<x>> = {1} /\ <<x>>[1] = x /\ <<x>> # <<>> /\ Head(<<x>>) = x
    OBVIOUS
  <2>2. x # Closed /\ x.type = "answer"
    BY AnswersDiffer
  <2>3. x.from = f /\ x.nth = made[f[1]]
    BY <1>3, <2>1, <2>2 DEF IInv, OwnInv, OwnAnswer
  <2>4. QED BY <1>3, <2>1, <2>2, <2>3 DEF Got, GotIn, Answers
<1>4. ASSUME NEW f \in Frames
      PROVE  \/ inbox[f] = <<>> \/ inbox[f] = <<Closed>> \/ \E x \in Answer : inbox[f] = <<x>>
  BY ChannelsHoldOne
<1>5. HasReply(c) <=> Got(Final(c)) \in {"ok", "error"}
  <2>1. CASE inbox[Final(c)] = <<>> \/ inbox[Final(c)] = <<Closed>>
    BY <1>1, <1>2, <1>f, <2>1 DEF HasReply
  <2>2. ASSUME NEW x \in Answer, inbox[Final(c)] = <<x>>
        PROVE  HasReply(c) /\ Got(Final(c)) \in {"ok", "error"}
    <3>1. Reply(c, x) /\ x \in Answers(inbox[Final(c)])
      BY <1>3, <1>f, <2>2 DEF Reply, OfThisCall
    <3>2. QED BY <1>3, <1>f, <2>2, <3>1 DEF HasReply
  <2>3. QED BY <1>4, <1>f, <2>1, <2>2
<1>6. HasRefusal(c) <=> Nested(c) /\ Got(B(c)) = "error"
  <2>1. CASE inbox[B(c)] = <<>> \/ inbox[B(c)] = <<Closed>>
    BY <1>1, <1>2, <1>f, <2>1 DEF HasRefusal
  <2>2. ASSUME NEW x \in Answer, inbox[B(c)] = <<x>>
        PROVE  HasRefusal(c) <=> Nested(c) /\ Got(B(c)) = "error"
    <3>1. Answers(inbox[B(c)]) = {x} /\ Got(B(c)) = IF x.ok THEN "ok" ELSE "error"
      BY <1>3, <1>f, <2>2
    <3>2. Refusal(c, x) <=> Nested(c) /\ ~x.ok
      BY <1>3, <1>f, <2>2 DEF Refusal, OfThisCall
    <3>3. x.ok \in BOOLEAN
      BY AnswersDiffer
    <3>4. HasRefusal(c) <=> Refusal(c, x)
      BY <3>1 DEF HasRefusal
    <3>5. QED BY <3>1, <3>2, <3>3, <3>4
  <2>3. QED BY <1>4, <1>f, <2>1, <2>2
<1>7. HasEnd(c) <=> Got(T(c)) = "end" \/ Got(B(c)) = "end"
  <2>1. ASSUME NEW f \in Frames
        PROVE  Closed \in {inbox[f][i] : i \in DOMAIN inbox[f]} <=> Got(f) = "end"
    BY <1>1, <1>2, <1>3, <1>4
  <2>2. QED BY <1>f, <2>1 DEF HasEnd, Delivered
<1>8. QED BY <1>5, <1>6, <1>7

WillGet(f) == GotIn(inbox'[f])

LEMMA StagesReadPrimed == IInv' => Sight'
BY StagesRead, PTL

LEMMA StagesReadNext ==
  ASSUME IInv', NEW c \in Callers
  PROVE  /\ HasReply(c)' <=>
              (IF callId'[T(c)] # None THEN WillGet(T(c)) ELSE WillGet(B(c))) \in {"ok", "error"}
         /\ HasRefusal(c)' <=> callId'[T(c)] # None /\ WillGet(B(c)) = "error"
         /\ HasEnd(c)' <=> WillGet(T(c)) = "end" \/ WillGet(B(c)) = "end"
<1>2. Got(Final(c))' = IF callId'[T(c)] # None THEN WillGet(T(c)) ELSE WillGet(B(c))
  BY DEF Got, WillGet, Final, Nested
<1>3. QED BY StagesReadPrimed, <1>2 DEF Sight, Got, WillGet, Nested

LEMMA HeardNext ==
  ASSUME IInv, HeardInv, [Next]_vars
  PROVE  HeardInv'
<1>0. RegistryStep /\ (loop' \in Early => loop \in Early)
  BY NextRegistryStep DEF IInv
<1>t. /\ callId \in [Frames -> Nat \cup {None}] /\ calls \in SUBSET [id : Nat, rx : Frames]
      /\ inbox \in [Frames -> Seq(Answer \cup {Closed})] /\ nextId \in Nat /\ nextId # None
  BY NoneIsNoId DEF IInv, TypeOK
<1>e. GotIn(<<>>) = "none"
  BY DEF GotIn
<1>d. GotIn(<<Closed>>) = "end"
  <2>1. <<Closed>> # <<>> /\ Head(<<Closed>>) = Closed
    OBVIOUS
  <2>2. QED BY <2>1 DEF GotIn
<1>n. \A f \in Frames : callId[f] = None => inbox[f] = <<>>
  BY DEF IInv, RegistryInv, Replies
<1>1. SUFFICES ASSUME NEW f \in Frames
               PROVE  /\ callId'[f] # None /\ [id |-> callId'[f], rx |-> f] \in calls'
                           => WillGet(f) \in {"none", "end"}
                      /\ loop' \in Early => WillGet(f) # "end"
  BY DEF HeardInv, Got, Entry, WillGet
<1>2. /\ callId[f] # None /\ [id |-> callId[f], rx |-> f] \in calls
           => GotIn(inbox[f]) \in {"none", "end"}
      /\ loop' \in Early => GotIn(inbox[f]) # "end"
  BY <1>0 DEF HeardInv, Got, Entry
<1>3. CASE Quiet
  BY <1>2, <1>3 DEF Quiet, WillGet
<1>4. ASSUME NEW g \in Frames, callId[g] = None, RegisterCall(g), UNCHANGED inbox
      PROVE  /\ callId'[f] # None /\ [id |-> callId'[f], rx |-> f] \in calls'
                  => WillGet(f) \in {"none", "end"}
             /\ loop' \in Early => WillGet(f) # "end"
  <2>1. CASE f = g
    BY <1>e, <1>n, <1>4, <2>1 DEF WillGet
  <2>2. CASE f # g
    BY <1>t, <1>2, <1>4, <2>2 DEF RegisterCall, Removed, WillGet
  <2>3. QED BY <2>1, <2>2
<1>5. ASSUME NEW S \in SUBSET Frames, DropReceivers(S), calls' \subseteq calls
      PROVE  /\ callId'[f] # None /\ [id |-> callId'[f], rx |-> f] \in calls'
                  => WillGet(f) \in {"none", "end"}
             /\ loop' \in Early => WillGet(f) # "end"
  BY <1>e, <1>2, <1>5 DEF DropReceivers, WillGet
<1>6. ASSUME NEW e \in calls, NEW a \in Answer, loop = "recv", UNCHANGED callId,
             calls' = Removed(e.id), callId[e.rx] = e.id,
             inbox' = [inbox EXCEPT ![e.rx] = Append(@, a)]
      PROVE  /\ callId'[f] # None /\ [id |-> callId'[f], rx |-> f] \in calls'
                  => WillGet(f) \in {"none", "end"}
             /\ loop' \in Early => WillGet(f) # "end"
  <2>1. CASE f # e.rx
    BY <1>t, <1>2, <1>6, <2>1 DEF Removed, WillGet
  <2>2. CASE f = e.rx
    <3>1. [id |-> callId'[f], rx |-> f] \notin calls'
      BY <1>6, <2>2 DEF Removed
    <3>2. Entry(f) = e
      BY <1>t, <1>6, <2>2 DEF Entry
    <3>3. inbox[f] = <<>>
      BY <1>6, <3>2, RegisteredIsUnanswered DEF Early
    <3>4. inbox'[f] = <<a>>
      BY <1>t, <1>6, <2>2, <3>3
    <3>5. a # Closed /\ <<a>> # <<>> /\ Head(<<a>>) = a
      BY AnswersDiffer
    <3>6. WillGet(f) # "end"
      BY <3>4, <3>5 DEF WillGet, GotIn
    <3>7. QED BY <3>1, <3>6
  <2>3. QED BY <2>1, <2>2
<1>7. CASE Cancels
  <2>1. loop' \notin Early /\ loop \in Early /\ UNCHANGED <<callId, calls>>
    BY <1>7 DEF Cancels, Early, CancelOutstandingMethodCalls
  <2>2. CASE Entry(f) \in calls
    <3>1. inbox[f] = <<>>
      BY <2>1, <2>2, RegisteredIsUnanswered
    <3>2. inbox'[f] \in {<<>>, <<Closed>>}
      <4>1. Append(<<>>, Closed) = <<Closed>>
        OBVIOUS
      <4>2. inbox'[f] \in {inbox[f], Append(inbox[f], Closed)}
        BY <1>7 DEF Cancels, CancelOutstandingMethodCalls
      <4>3. QED BY <3>1, <4>1, <4>2
    <3>3. QED BY <1>e, <1>d, <2>1, <3>2 DEF WillGet
  <2>3. QED BY <2>1, <2>2 DEF Entry
<1>8. QED
  <2>1. CASE Drops \/ Unregisters
    <3>1. PICK S \in SUBSET Frames : DropReceivers(S) /\ calls' \subseteq calls
      BY <2>1 DEF Drops, Unregisters, Removed
    <3>2. QED BY <1>5, <3>1
  <2>2. CASE Resolves
    <3>1. PICK e \in calls, a \in Answer :
            /\ calls' = Removed(e.id)
            /\ \/ callId[e.rx] = e.id /\ inbox' = [inbox EXCEPT ![e.rx] = Append(@, a)]
               \/ callId[e.rx] # e.id /\ UNCHANGED inbox
      BY <2>2 DEF Resolves
    <3>2. CASE UNCHANGED inbox
      BY <1>2, <2>2, <3>1, <3>2 DEF Resolves, Removed, WillGet
    <3>3. QED BY <1>6, <2>2, <3>1, <3>2 DEF Resolves
  <2>3. CASE Registers
    BY <1>4, <2>3 DEF Registers
  <2>4. QED BY <1>0, <1>3, <1>7, <2>1, <2>2, <2>3 DEF RegistryStep

(* ... and what is on its way to it.                                       *)
Back(a, c) == a.from = Final(c) \/ (Nested(c) /\ a.from = B(c) /\ ~a.ok)

BackSight ==
  \A c \in Callers : /\ Returning(c) <=> \E i \in AnswersAt : Back(msgs[i], c)
                     /\ Asked(c) <=> \E r \in owed : r.from = Final(c)

LEMMA StagesReturn == IInv /\ Traffic => BackSight
<1> SUFFICES ASSUME IInv, Traffic, NEW c \in Callers
             PROVE  /\ Returning(c) <=> \E i \in AnswersAt : Back(msgs[i], c)
                    /\ Asked(c) <=> \E r \in owed : r.from = Final(c)
  BY DEF BackSight
<1>1. ASSUME NEW x, x \in owed \/ (\E i \in AnswersAt : x = msgs[i]),
             x.from \in OwnFrames(c)
      PROVE  x.from[1] = c /\ x.nth = made[c]
  <2>1. Live(x) /\ Belongs(x)
    BY <1>1 DEF Traffic, UnderWay, IInv, OwnInv, OwnIds, AnswersAt
  <2>2. x.from \in Frames /\ x.from[1] = c
    BY <1>1, FramesApart DEF OwnFrames
  <2>3. QED BY <2>1, <2>2 DEF Live, Belongs
<1>2. Final(c) \in OwnFrames(c) /\ B(c) \in OwnFrames(c)
  BY DEF Final, OwnFrames
<1>3. Asked(c) <=> \E r \in owed : r.from = Final(c)
  BY <1>1, <1>2 DEF Asked, Reply, OfThisCall
<1>4. \A i \in AnswersAt : Reply(c, msgs[i]) \/ Refusal(c, msgs[i]) <=> Back(msgs[i], c)
  BY <1>1, <1>2 DEF Reply, Refusal, OfThisCall, Back
<1>5. Answers(msgs) = {msgs[i] : i \in AnswersAt}
  BY DEF Answers, AnswersAt
<1>6. Returning(c) <=> \E i \in AnswersAt : Back(msgs[i], c)
  BY <1>4, <1>5 DEF Returning
<1>7. QED BY <1>3, <1>6

WillBack(a, c) ==
  \/ a.from = IF callId'[T(c)] # None THEN T(c) ELSE B(c)
  \/ callId'[T(c)] # None /\ a.from = B(c) /\ ~a.ok

LEMMA StagesReturnPrimed == IInv' /\ Traffic' => BackSight'
BY StagesReturn, PTL

LEMMA StagesReturnNext ==
  ASSUME IInv', Traffic', NEW c \in Callers
  PROVE  /\ Returning(c)' <=> \E i \in AnswersAt' : WillBack(msgs'[i], c)
         /\ Asked(c)' <=> \E r \in owed' : r.from = IF callId'[T(c)] # None THEN T(c) ELSE B(c)
BY StagesReturnPrimed DEF BackSight, Back, WillBack, Final, Nested

PromiseInv == IInv /\ CalmInv /\ HeardInv

(* When the calls have been cancelled, who waits has heard something.      *)
EndSight ==
  loop \notin Early => \A c \in Callers :
    pc[c] \in {"wait", "waitT"} => HasReply(c) \/ HasRefusal(c) \/ HasEnd(c)

LEMMA EndIsHeard == PromiseInv => EndSight
<1> SUFFICES ASSUME PromiseInv, loop \notin Early, NEW c \in Callers, pc[c] \in {"wait", "waitT"}
             PROVE  HasReply(c) \/ HasRefusal(c) \/ HasEnd(c)
  BY DEF EndSight
<1>1. loop \in {"clear", "done"}
  BY DEF PromiseInv, IInv, TypeOK, LoopPCs, CalmInv, Calm, Early
<1>2. inbox[Final(c)] # <<>>
  BY <1>1 DEF PromiseInv, IInv, TailInv, Answered, Final, Shape
<1>3. Got(Final(c)) \in {"ok", "error", "end"}
  BY <1>2 DEF Got, GotIn
<1>4. QED BY <1>3, StagesRead DEF Sight, PromiseInv, Final

LEMMA EndIsHeardPrimed == PromiseInv' => EndSight'
BY EndIsHeard, PTL

LEMMA EndIsHeardNext ==
  ASSUME PromiseInv', loop' \notin Early, NEW c \in Callers, pc'[c] \in {"wait", "waitT"}
  PROVE  HasReply(c)' \/ HasRefusal(c)' \/ HasEnd(c)'
BY EndIsHeardPrimed DEF EndSight

(* A call whose caller has not moved, and has heard nothing new, is where  *)
(* it was if as much of it is under way.                                   *)
SameChannels(c) ==
  /\ pc'[c] = pc[c] /\ callId'[T(c)] = callId[T(c)]
  /\ inbox'[T(c)] = inbox[T(c)] /\ inbox'[B(c)] = inbox[B(c)]

LEMMA SameSight ==
  ASSUME IInv, IInv', NEW c \in Callers, SameChannels(c)
  PROVE  /\ HasReply(c)' <=> HasReply(c)
         /\ HasRefusal(c)' <=> HasRefusal(c)
         /\ HasEnd(c)' <=> HasEnd(c)
BY StagesRead, StagesReadNext DEF Sight, SameChannels, Got, WillGet, Final, Nested

LEMMA StageStays ==
  ASSUME PromiseInv, PromiseInv', NEW c \in Callers, SameChannels(c),
         loop \notin Early => loop' \notin Early,
         loop \in Early => (Returning(c)' <=> Returning(c)) /\ (Asked(c)' <=> Asked(c))
  PROVE  Stage(c)' = Stage(c)
<1>1. /\ HasReply(c)' <=> HasReply(c)
      /\ HasRefusal(c)' <=> HasRefusal(c)
      /\ HasEnd(c)' <=> HasEnd(c)
  BY SameSight DEF PromiseInv
<1>2. pc'[c] = pc[c]
  BY DEF SameChannels
<1>3. CASE loop \in Early
  BY <1>1, <1>2, <1>3 DEF Stage
<1>4. CASE loop \notin Early
  BY <1>1, <1>2, <1>4, EndIsHeard DEF EndSight, Stage
<1>5. QED BY <1>3, <1>4

(* Steps of one call, and of none.                                         *)
Moves(c, from, to) ==
  /\ Stage(c) \in from /\ Stage(c)' \in to
  /\ \A k \in Callers \ {c} : Stage(k)' = Stage(k)
  /\ UNCHANGED Phase

LEMMA MovesGo ==
  ASSUME NEW c \in Callers, NEW from, NEW to, Moves(c, from, to)
  PROVE  Promise!Goes(c, from, to)
BY DEF Moves, Promise!Goes

LEMMA NothingMoves ==
  ASSUME \A c \in Callers : Stage(c)' = Stage(c), UNCHANGED Phase
  PROVE  UNCHANGED Promise!vars
BY DEF Promise!vars

-----------------------------------------------------------------------------
(* Each step of the transport is a step of CallService, or none.           *)

LEMMA OthersStay ==
  ASSUME PromiseInv, PromiseInv', NEW c \in Callers, CallerMove(c), OthersKeep(c),
         NEW k \in Callers \ {c}
  PROVE  Stage(k)' = Stage(k)
<1>1. T(k) \in Frames \ OwnFrames(c) /\ B(k) \in Frames \ OwnFrames(c)
  BY FramesApart DEF OwnFrames
<1>2. SameChannels(k) /\ UNCHANGED <<loop, msgs>> /\ AnswersAt' = AnswersAt
  BY <1>1 DEF OthersKeep, SameChannels, AnswersAt
<1>3. \A r : r.from \in {T(k), B(k)} => (r \in owed' <=> r \in owed)
  <2>1. \A r \in NewRequests(c) : r.from \in OwnFrames(c)
    BY DEF NewRequests, OwnFrames
  <2>2. UNCHANGED owed \/ owed' = owed \cup NewRequests(c)
    BY DEF CallerMove, Walks, Files, Asks, Hears, Finishes, TakesBack
  <2>3. QED BY <1>1, <2>1, <2>2
<1>4. ASSUME loop \in Early
      PROVE  (Returning(k)' <=> Returning(k)) /\ (Asked(k)' <=> Asked(k))
  <2>1. Traffic /\ Traffic' /\ IInv /\ IInv'
    BY <1>2, <1>4 DEF PromiseInv, CalmInv
  <2>2. callId'[T(k)] = callId[T(k)] /\ UNCHANGED msgs
    BY <1>2 DEF SameChannels
  <2>3. \A a : WillBack(a, k) <=> Back(a, k)
    BY <2>2 DEF WillBack, Back, Final, Nested
  <2>4. Returning(k)' <=> Returning(k)
    BY <1>2, <2>1, <2>2, <2>3, StagesReturn, StagesReturnNext DEF BackSight
  <2>5. Asked(k)' <=> Asked(k)
    BY <1>3, <2>1, <2>2, StagesReturn, StagesReturnNext DEF BackSight, Final, Nested
  <2>6. QED BY <2>4, <2>5
<1>5. QED BY <1>2, <1>4, StageStays

(* Before a caller waits, no channel of its own has an answer in it.       *)
LEMMA NotYetAnswered ==
  ASSUME PromiseInv, NEW c \in Callers, pc[c] \notin {"wait", "waitT"}
  PROVE  /\ Got(B(c)) \in {"none", "end"} /\ Got(T(c)) \in {"none", "end"}
         /\ loop \in Early => Got(B(c)) = "none" /\ Got(T(c)) = "none"
         /\ pc[c] = "idle" => Got(B(c)) = "none" /\ Got(T(c)) = "none"
<1>f. T(c) \in Frames /\ B(c) \in Frames
  BY FrameFacts
<1>e. GotIn(<<>>) = "none"
  BY DEF GotIn
<1>n. \A f \in Frames : callId[f] = None => Got(f) = "none"
  BY <1>e DEF PromiseInv, IInv, RegistryInv, Replies, Got
<1>1. callId[B(c)] # None => Entry(B(c)) \in calls
  BY DEF PromiseInv, IInv, Shape, CalmInv, Calm, HoldsEntry
<1>2. callId[T(c)] # None => Entry(T(c)) \in calls
  BY DEF PromiseInv, CalmInv, HoldsEntry, Nested
<1>3. Got(B(c)) \in {"none", "end"} /\ Got(T(c)) \in {"none", "end"}
  BY <1>1, <1>2, <1>f, <1>n DEF PromiseInv, HeardInv
<1>4. loop \in Early => Got(B(c)) # "end" /\ Got(T(c)) # "end"
  BY <1>f DEF PromiseInv, HeardInv
<1>5. pc[c] = "idle" => callId[B(c)] = None /\ callId[T(c)] = None
  BY DEF PromiseInv, IInv, Shape, Nested
<1>6. QED BY <1>3, <1>4, <1>5, <1>f, <1>n

(* While a call waits for SendMessageToTarget to be accepted, its target   *)
(* frame has no answer.                                                    *)
LEMMA TargetHearsLater ==
  ASSUME PromiseInv, NEW c \in Callers, pc[c] = "wait", Nested(c), ~Accepted(c)
  PROVE  Got(T(c)) \in {"none", "end"} /\ Entry(T(c)) \in calls
BY FrameFacts DEF PromiseInv, CalmInv, HoldsEntry, Nested, HeardInv

LEMMA StageWalks ==
  ASSUME PromiseInv, PromiseInv', NEW c \in Callers, Walks(c) \/ Asks(c), OthersKeep(c)
  PROVE  \/ Stage(c)' = Stage(c)
         \/ Phase = "open" /\ Stage(c) = "idle" /\ Stage(c)' = "called"
         \/ Phase = "open" /\ Stage(c) = "called" /\ Stage(c)' \in {"asked", "lost"}
         \/ Stage(c) \in {"called", "cancelled"} /\ Stage(c)' = "failing"
<1>1. UNCHANGED <<callId, calls, inbox, loop, msgs, open>>
  BY DEF Walks, Asks, OthersKeep
<1>2. /\ HasReply(c)' <=> HasReply(c)
      /\ HasRefusal(c)' <=> HasRefusal(c)
      /\ HasEnd(c)' <=> HasEnd(c)
  BY <1>1, StagesRead, StagesReadNext DEF PromiseInv, Sight, Got, WillGet, Final, Nested
<1>3. HasEnd(c) => pc[c] # "idle" /\ ~open
  <2>1. open => loop \in Early
    BY DEF PromiseInv, IInv, TypeOK, LoopPCs, CalmInv, Calm, Early
  <2>2. loop \in Early => ~HasEnd(c)
    BY FrameFacts, StagesRead DEF Sight, PromiseInv, HeardInv
  <2>3. pc[c] = "idle" => ~HasEnd(c)
    BY NotYetAnswered, StagesRead DEF Sight, PromiseInv
  <2>4. QED BY <2>1, <2>2, <2>3
<1>4. open => Phase = "open"
  BY DEF PromiseInv, CalmInv, Calm, Phase
<1>5. CASE \/ pc[c] = "idle" /\ pc'[c] = "idle"
           \/ open /\ pc[c] = "idle" /\ pc'[c] \in {"registerT", "register"}
           \/ pc[c] = "check" /\ pc'[c] \in {"register", "unregisterT"}
           \/ pc[c] = "send" /\ pc'[c] = "unregister"
  BY <1>2, <1>3, <1>4, <1>5 DEF Stage
<1>6. CASE open /\ pc[c] = "send" /\ pc'[c] = "wait"
  <2>1. loop \in Early /\ loop' = loop
    BY <1>1, <1>6 DEF PromiseInv, IInv, TypeOK, LoopPCs, CalmInv, Calm, Early
  <2>2. Traffic /\ Traffic' /\ IInv /\ IInv'
    BY <2>1 DEF PromiseInv, CalmInv
  <2>3. ~HasReply(c) /\ ~HasRefusal(c) /\ ~HasEnd(c)
    BY <1>6, <2>1, NotYetAnswered, StagesRead DEF Sight, PromiseInv, Final
  <2>4. \A i \in AnswersAt : msgs[i].from \notin OwnFrames(c)
    BY <1>6, <2>2 DEF Traffic, UnderWay, Live, OwnFrames
  <2>5. ~Returning(c)'
    <3>1. AnswersAt' = AnswersAt /\ UNCHANGED msgs
      BY <1>1 DEF AnswersAt
    <3>2. \A i \in AnswersAt : ~WillBack(msgs[i], c)
      BY <2>4 DEF WillBack, OwnFrames
    <3>3. QED BY <2>2, <3>1, <3>2, StagesReturnNext
  <2>6. Stage(c) = "called"
    BY <1>6, <2>3 DEF Stage
  <2>7. Stage(c)' \in {"asked", "lost"}
    BY <1>2, <1>6, <2>3, <2>5 DEF Stage
  <2>8. QED BY <1>4, <1>6, <2>6, <2>7
<1>7. QED BY <1>5, <1>6 DEF Walks, Asks

LEMMA StageFiles ==
  ASSUME PromiseInv, PromiseInv', NEW c \in Callers, Files(c)
  PROVE  Stage(c)' = Stage(c)
<1>1. HasEnd(c)' <=> HasEnd(c)
  BY StagesRead, StagesReadNext DEF PromiseInv, Sight, Files, Got, WillGet
<1>2. pc[c] \in {"registerT", "register"} /\ pc'[c] \in {"check", "send"}
  BY DEF Files
<1>3. QED BY <1>1, <1>2 DEF Stage

LEMMA StageHears ==
  ASSUME PromiseInv, PromiseInv', NEW c \in Callers, Hears(c), OthersKeep(c)
  PROVE  \/ Stage(c)' = Stage(c)
         \/ Stage(c) \in {"answered", "cancelled"} /\ Stage(c)' = "idle"
         \/ Stage(c) \in {"refused", "cancelled"} /\ Stage(c)' = "failing"
<1>f. T(c) \in Frames /\ B(c) \in Frames /\ T(c) # B(c)
  BY FrameFacts
<1>1. /\ pc[c] = "wait" /\ UNCHANGED <<calls, owed, loop, msgs>>
      /\ pc'[c] = IF ~Nested(c) THEN "idle" ELSE IF Accepted(c) THEN "waitT" ELSE "unregisterT"
      /\ inbox'[T(c)] = inbox[T(c)] /\ inbox'[B(c)] = <<>> /\ callId'[T(c)] = callId[T(c)]
  BY <1>f DEF Hears, OthersKeep, DropReceivers
<1>2. Got(B(c)) = IF Accepted(c) THEN "ok" ELSE IF Head(inbox[B(c)]) = Closed THEN "end" ELSE "error"
  BY DEF Hears, Got, GotIn, Accepted, IsOk
<1>3. WillGet(B(c)) = "none" /\ WillGet(T(c)) = Got(T(c))
  BY <1>1 DEF WillGet, Got, GotIn
<1>4. IInv /\ IInv'
  BY DEF PromiseInv
<1>5. CASE ~Nested(c)
  <2>1. HasReply(c) \/ HasEnd(c)
    BY <1>2, <1>4, <1>5, StagesRead DEF Sight, Final
  <2>2. ~HasRefusal(c)
    BY <1>4, <1>5, StagesRead DEF Sight
  <2>3. QED BY <1>1, <1>5, <2>1, <2>2 DEF Stage
<1>6. CASE Nested(c) /\ ~Accepted(c)
  <2>1. Got(T(c)) \in {"none", "end"}
    BY <1>1, <1>6, TargetHearsLater
  <2>2. ~HasReply(c) /\ (HasRefusal(c) \/ HasEnd(c))
    BY <1>2, <1>4, <1>6, <2>1, StagesRead DEF Sight, Final
  <2>3. QED BY <1>1, <1>6, <2>2 DEF Stage
<1>7. CASE Nested(c) /\ Accepted(c)
  <2>1. pc'[c] = "waitT"
    BY <1>1, <1>7
  <2>2. /\ HasReply(c)' <=> HasReply(c)
        /\ ~HasRefusal(c)' /\ ~HasRefusal(c)
        /\ HasEnd(c)' <=> HasEnd(c)
    BY <1>1, <1>2, <1>3, <1>4, <1>7, StagesRead, StagesReadNext DEF Sight, Final, Nested
  <2>3. CASE loop \notin Early
    BY <1>1, <2>1, <2>2, <2>3, EndIsHeard DEF EndSight, Stage
  <2>4. CASE loop \in Early
    <3>1. Traffic /\ Traffic'
      BY <1>1, <2>4 DEF PromiseInv, CalmInv
    <3>2. \A i \in AnswersAt : msgs[i].from # B(c)
      <4>1. Entry(B(c)) \notin calls
        BY <1>f, <1>4, <2>4, RegisteredIsUnanswered DEF Hears
      <4>2. QED BY <3>1, <4>1 DEF Traffic, UnderWay, Live
    <3>3. AnswersAt' = AnswersAt /\ UNCHANGED msgs
      BY <1>1 DEF AnswersAt
    <3>4. \A i \in AnswersAt : WillBack(msgs[i], c) <=> Back(msgs[i], c)
      BY <1>1, <3>2 DEF WillBack, Back, Final, Nested
    <3>5. Returning(c)' <=> Returning(c)
      BY <1>4, <3>1, <3>3, <3>4, StagesReturn, StagesReturnNext DEF BackSight
    <3>6. Asked(c)' <=> Asked(c)
      BY <1>1, <1>4, <3>1, StagesReturn, StagesReturnNext DEF BackSight, Final, Nested
    <3>7. QED BY <1>1, <2>1, <2>2, <3>5, <3>6 DEF Stage
  <2>5. QED BY <2>3, <2>4
<1>8. QED BY <1>5, <1>6, <1>7

LEMMA StageFinishes ==
  ASSUME PromiseInv, NEW c \in Callers, Finishes(c)
  PROVE  Stage(c) \in {"answered", "cancelled"} /\ Stage(c)' = "idle"
<1>1. pc[c] = "waitT" /\ pc'[c] = "idle" /\ inbox[T(c)] # <<>> /\ Nested(c) /\ callId[B(c)] = None
  BY DEF Finishes, PromiseInv, IInv, Shape
<1>2. Got(T(c)) \in {"ok", "error", "end"}
  BY <1>1 DEF Got, GotIn
<1>3. Got(B(c)) = "none"
  BY <1>1, FrameFacts DEF PromiseInv, IInv, RegistryInv, Replies, Got, GotIn
<1>4. ~HasRefusal(c) /\ (HasReply(c) \/ HasEnd(c))
  BY <1>1, <1>2, <1>3, StagesRead DEF Sight, Final, PromiseInv
<1>5. QED BY <1>1, <1>4 DEF Stage

LEMMA StageTakesBack ==
  ASSUME NEW c \in Callers, TakesBack(c)
  PROVE  Stage(c) = "failing" /\ Stage(c)' \in {"failing", "idle"}
BY DEF TakesBack, Stage

LEMMA CallerPromises ==
  ASSUME PromiseInv, PromiseInv', NEW c \in Callers, CallerMove(c), OthersKeep(c)
  PROVE  [Promise!Next]_Promise!vars
<1>1. UNCHANGED Phase
  BY DEF OthersKeep, Phase
<1>2. \A k \in Callers \ {c} : Stage(k)' = Stage(k)
  BY OthersStay
<1>3. \/ Stage(c)' = Stage(c)
      \/ Phase = "open" /\ Stage(c) = "idle" /\ Stage(c)' = "called"
      \/ Phase = "open" /\ Stage(c) = "called" /\ Stage(c)' \in {"asked", "lost"}
      \/ Stage(c) \in {"called", "refused", "cancelled"} /\ Stage(c)' = "failing"
      \/ Stage(c) \in {"answered", "cancelled", "failing"} /\ Stage(c)' = "idle"
      \/ Stage(c) = "failing" /\ Stage(c)' = "failing"
  BY StageWalks, StageFiles, StageHears, StageFinishes, StageTakesBack DEF CallerMove
<1>4. CASE Stage(c)' = Stage(c)
  BY <1>1, <1>2, <1>4, NothingMoves
<1>5. CASE Phase = "open" /\ Stage(c) = "idle" /\ Stage(c)' = "called"
  BY <1>1, <1>2, <1>5, MovesGo DEF Moves, Promise!Next, Promise!Call
<1>6. CASE Phase = "open" /\ Stage(c) = "called" /\ Stage(c)' \in {"asked", "lost"}
  BY <1>1, <1>2, <1>6, MovesGo DEF Moves, Promise!Next, Promise!Ask
<1>7. CASE Stage(c) \in {"called", "refused", "cancelled"} /\ Stage(c)' = "failing"
  BY <1>1, <1>2, <1>7, MovesGo DEF Moves, Promise!Next, Promise!Fail
<1>8. CASE Stage(c) \in {"answered", "cancelled", "failing"} /\ Stage(c)' = "idle"
  BY <1>1, <1>2, <1>8, MovesGo DEF Moves, Promise!Next, Promise!Return
<1>9. QED BY <1>3, <1>4, <1>5, <1>6, <1>7, <1>8

(* An answer at the head of the queue finds the channel that it is for     *)
(* empty, and its caller as one who waits for it.                          *)
LEMMA StageDelivers ==
  ASSUME PromiseInv, PromiseInv', Delivers, NEW c \in Callers, msgs[1].from \in OwnFrames(c),
         UNCHANGED <<pc, callId, owed, made>>
  PROVE  \/ Stage(c)' = Stage(c)
         \/ Stage(c) = "replied" /\ Stage(c)' \in {"answered", "refused"}
<1> DEFINE a == msgs[1]
<1>f. T(c) \in Frames /\ B(c) \in Frames /\ T(c) # B(c)
  BY FrameFacts
<1>0. /\ loop \in Early /\ loop' \in Early /\ IInv /\ IInv' /\ Traffic /\ Traffic'
      /\ HeardInv /\ 1 \in AnswersAt /\ a \in Answer /\ a.ok \in BOOLEAN
  BY UnderWayTyped, AnswersDiffer DEF Delivers, Early, PromiseInv, CalmInv
<1>1. /\ Live(a) /\ Entry(a.from) \in calls /\ inbox[a.from] = <<>>
      /\ a.from = B(c) => pc[c] = "wait" /\ callId[B(c)] # None
      /\ a.from = T(c) => pc[c] \in {"wait", "waitT"} /\ Nested(c)
  <2>1. Live(a)
    BY <1>0 DEF Traffic, UnderWay
  <2>2. a.from = T(c) => Nested(c)
    BY <1>0, <2>1, UnderWayTyped DEF Live, Nested
  <2>3. a.from = B(c) => callId[B(c)] # None
    BY <1>0, <2>1, UnderWayTyped DEF Live
  <2>4. inbox[a.from] = <<>>
    BY <1>0, <1>f, <2>1, RegisteredIsUnanswered DEF Live, OwnFrames
  <2>5. QED BY <2>1, <2>2, <2>3, <2>4 DEF Live
<1>2. /\ inbox'[a.from] = <<a>>
      /\ \A f \in Frames : f # a.from => inbox'[f] = inbox[f]
  <2>1. inbox \in [Frames -> Seq(Answer \cup {Closed})] /\ a.from \in Frames
    BY <1>0, <1>f DEF IInv, TypeOK, OwnFrames
  <2>2. Append(<<>>, a) = <<a>>
    OBVIOUS
  <2>3. inbox' = [inbox EXCEPT ![a.from] = Append(@, a)]
    BY DEF Delivers
  <2> HIDE DEF a
  <2>4. QED BY <1>1, <2>1, <2>2, <2>3
<1>3. /\ Got(a.from) = "none" /\ WillGet(a.from) = IF a.ok THEN "ok" ELSE "error"
      /\ \A f \in Frames : f # a.from => WillGet(f) = Got(f)
  <2>1. <<a>> # <<>> /\ Head(<<a>>) = a /\ a # Closed
    BY <1>0, AnswersDiffer
  <2>2. QED BY <1>1, <1>2, <2>1 DEF Got, GotIn, WillGet
<1>4. Got(T(c)) # "end" /\ Got(B(c)) # "end"
  BY <1>0, <1>f DEF HeardInv
<1> HIDE DEF a
<1>5. ~HasEnd(c) /\ ~HasEnd(c)'
  BY <1>0, <1>3, <1>4, <1>f, StagesRead, StagesReadNext DEF Sight, OwnFrames
<1>6. a.from = T(c) => Got(B(c)) \in {"none", "ok"}
  <2>1. SUFFICES ASSUME a.from = T(c), Got(B(c)) = "error" PROVE FALSE
    BY <1>4 DEF Got, GotIn
  <2>2. ~Accepted(c) /\ inbox[B(c)] # <<>>
    BY <2>1 DEF Got, GotIn, Accepted, IsOk
  <2>3. pc[c] = "wait"
    <3>1. callId[B(c)] = None => inbox[B(c)] = <<>>
      BY <1>0, <1>f DEF IInv, RegistryInv, Replies
    <3>2. QED BY <1>0, <1>1, <2>1, <2>2, <3>1 DEF IInv, Shape
  <2>4. PICK j \in AnswersAt : j < 1 /\ OkAt(j, c)
    BY <1>0, <2>1, <2>2, <2>3 DEF Traffic, InOrder, a
  <2>5. j \in DOMAIN msgs /\ msgs \in Seq(Message)
    BY <1>0, <2>4 DEF AnswersAt, IInv, TypeOK, Message
  <2>6. QED BY <2>4, <2>5
<1>7. CASE a.from = Final(c)
  <2>1. ~HasReply(c) /\ HasReply(c)'
    BY <1>0, <1>3, <1>7, StagesRead, StagesReadNext DEF Sight, Final, Nested
  <2>2. ~HasRefusal(c)
    BY <1>0, <1>6, <1>7, StagesRead DEF Sight, Final, Nested
  <2>3. Returning(c)
    BY <1>0, <1>7, StagesReturn DEF BackSight, Back, a
  <2>4. pc[c] \in {"wait", "waitT"}
    BY <1>1, <1>7 DEF Final
  <2>5. QED BY <1>5, <2>1, <2>2, <2>3, <2>4 DEF Stage
<1>8. CASE a.from = B(c) /\ Nested(c) /\ ~a.ok
  <2>1. ~Accepted(c) /\ pc[c] = "wait"
    BY <1>1, <1>8 DEF Accepted, IsOk
  <2>2. Got(T(c)) \in {"none", "end"}
    BY <1>8, <2>1, TargetHearsLater
  <2>3. ~HasReply(c) /\ ~HasReply(c)'
    BY <1>0, <1>3, <1>8, <1>f, <2>2, StagesRead, StagesReadNext DEF Sight, Final, Nested
  <2>4. ~HasRefusal(c) /\ HasRefusal(c)'
    BY <1>0, <1>3, <1>8, StagesRead, StagesReadNext DEF Sight, Nested
  <2>5. Returning(c)
    BY <1>0, <1>8, StagesReturn DEF BackSight, Back, a
  <2>6. QED BY <1>5, <2>1, <2>3, <2>4, <2>5 DEF Stage
<1>9. CASE a.from = B(c) /\ Nested(c) /\ a.ok
  <2>1. HasReply(c)' <=> HasReply(c)
    BY <1>0, <1>3, <1>9, <1>f, StagesRead, StagesReadNext DEF Sight, Final, Nested
  <2>2. ~HasRefusal(c) /\ ~HasRefusal(c)'
    BY <1>0, <1>3, <1>9, StagesRead, StagesReadNext DEF Sight, Nested
  <2>3. Asked(c)' <=> Asked(c)
    BY <1>0, StagesReturn, StagesReturnNext DEF BackSight, Final, Nested
  <2>4. Returning(c)' <=> Returning(c)
    <3>1. /\ \A i \in AnswersAt' : i + 1 \in AnswersAt /\ i + 1 # 1 /\ msgs'[i] = msgs[i + 1]
          /\ \A j \in AnswersAt : j # 1 => j - 1 \in AnswersAt' /\ msgs'[j - 1] = msgs[j]
      BY <1>0, ShiftedAnswers DEF Delivers
    <3>2. ~Back(msgs[1], c)
      BY <1>9, <1>f DEF Back, Final, a
    <3>3. \A x : WillBack(x, c) <=> Back(x, c)
      BY DEF WillBack, Back, Final, Nested
    <3>4. (\E i \in AnswersAt' : WillBack(msgs'[i], c)) <=> \E i \in AnswersAt : Back(msgs[i], c)
      BY <3>1, <3>2, <3>3
    <3>5. QED BY <1>0, <3>4, StagesReturn, StagesReturnNext DEF BackSight
  <2>5. QED BY <1>5, <2>1, <2>2, <2>3, <2>4 DEF Stage
<1>10. QED BY <1>1, <1>7, <1>8, <1>9, <1>0 DEF OwnFrames, Final, a

LEMMA DeliversPromises ==
  ASSUME PromiseInv, PromiseInv', Delivers, UNCHANGED <<pc, callId, owed, made>>
  PROVE  [Promise!Next]_Promise!vars
<1>0. /\ loop \in Early /\ loop' \in Early /\ IInv /\ IInv' /\ Traffic /\ Traffic'
      /\ 1 \in AnswersAt /\ msgs[1].from \in Frames /\ msgs # <<>> /\ msgs' = Tail(msgs)
  BY UnderWayTyped DEF Delivers, Early, PromiseInv, CalmInv
<1>1. PICK c \in Callers : msgs[1].from \in OwnFrames(c)
  BY <1>0, FrameOf DEF OwnFrames
<1>2. UNCHANGED Phase
  BY DEF Delivers, Phase
<1>3. ASSUME NEW k \in Callers \ {c} PROVE Stage(k)' = Stage(k)
  <2>1. msgs[1].from # T(k) /\ msgs[1].from # B(k)
    BY <1>1, FramesApart DEF OwnFrames
  <2>2. inbox' = [inbox EXCEPT ![msgs[1].from] = Append(@, msgs[1])]
    BY DEF Delivers
  <2>3. SameChannels(k)
    BY <1>0, <2>1, <2>2, FrameFacts DEF SameChannels, IInv, TypeOK
  <2>4. \A x : WillBack(x, k) <=> Back(x, k)
    BY DEF WillBack, Back, Final, Nested
  <2>5. ~Back(msgs[1], k)
    BY <2>1 DEF Back, Final
  <2>6. /\ \A i \in AnswersAt' : i + 1 \in AnswersAt /\ i + 1 # 1 /\ msgs'[i] = msgs[i + 1]
        /\ \A j \in AnswersAt : j # 1 => j - 1 \in AnswersAt' /\ msgs'[j - 1] = msgs[j]
    BY <1>0, ShiftedAnswers
  <2>7. (\E i \in AnswersAt' : WillBack(msgs'[i], k)) <=> \E i \in AnswersAt : Back(msgs[i], k)
    BY <2>4, <2>5, <2>6
  <2>8. Returning(k)' <=> Returning(k)
    BY <1>0, <2>7, StagesReturn, StagesReturnNext DEF BackSight
  <2>9. Asked(k)' <=> Asked(k)
    BY <1>0, StagesReturn, StagesReturnNext DEF BackSight, Final, Nested
  <2>10. QED BY <1>0, <2>3, <2>8, <2>9, StageStays
<1>4. \/ Stage(c)' = Stage(c)
      \/ Stage(c) = "replied" /\ Stage(c)' \in {"answered", "refused"}
  BY <1>1, StageDelivers
<1>5. CASE Stage(c)' = Stage(c)
  BY <1>2, <1>3, <1>5, NothingMoves
<1>6. CASE Stage(c) = "replied" /\ Stage(c)' \in {"answered", "refused"}
  BY <1>2, <1>3, <1>6, MovesGo DEF Moves, Promise!Next, Promise!Deliver
<1>7. QED BY <1>4, <1>5, <1>6

(* The cancellation reaches every call that waits with nothing in its      *)
(* channel, and leaves the others' answers where they are.                 *)
LEMMA StageCancelled ==
  ASSUME PromiseInv, PromiseInv', CancelsAll, NEW c \in Callers, UNCHANGED <<pc, callId>>
  PROVE  \/ Promise!Waiting(c) /\ Stage(c)' = "cancelled"
         \/ ~Promise!Waiting(c) /\ Stage(c)' = Stage(c)
         \/ Stage(c) = "called" /\ Stage(c)' = "cancelled"
<1>f. T(c) \in Frames /\ B(c) \in Frames /\ Final(c) \in Frames
  BY FrameFacts DEF Final
<1>0. /\ loop \in Early /\ loop' \notin Early /\ IInv /\ IInv'
      /\ \A f \in Frames : Got(f) # "end"
  BY DEF CancelsAll, Early, PromiseInv, HeardInv
<1>1. ASSUME NEW f \in Frames
      PROVE  /\ Entry(f) \in calls => Got(f) = "none" /\ WillGet(f) = "end"
             /\ Entry(f) \notin calls => WillGet(f) = Got(f)
             /\ Got(f) = "none" /\ callId[f] # None => Entry(f) \in calls
  <2>1. (\E e \in calls : e.rx = f /\ e.id = callId[f]) <=> Entry(f) \in calls
    <3>1. calls \in SUBSET [id : Nat, rx : Frames]
      BY DEF PromiseInv, IInv, TypeOK
    <3>2. \A e \in calls : e.rx = f /\ e.id = callId[f] => e = Entry(f)
      BY <3>1 DEF Entry
    <3>3. Entry(f).rx = f /\ Entry(f).id = callId[f]
      BY DEF Entry
    <3>4. QED BY <3>2, <3>3
  <2>2. inbox'[f] = IF Entry(f) \in calls THEN Append(inbox[f], Closed) ELSE inbox[f]
    BY <2>1 DEF CancelsAll, CancelOutstandingMethodCalls
  <2>3. Entry(f) \in calls => inbox[f] = <<>>
    BY <1>0, RegisteredIsUnanswered
  <2>4. Append(<<>>, Closed) # <<>> /\ Head(Append(<<>>, Closed)) = Closed
    OBVIOUS
  <2>5. Entry(f) \in calls => Got(f) = "none" /\ WillGet(f) = "end"
    BY <2>2, <2>3, <2>4 DEF Got, WillGet, GotIn
  <2>6. Entry(f) \notin calls => WillGet(f) = Got(f)
    BY <2>2 DEF Got, WillGet
  <2>7. Got(f) = "none" => inbox[f] = <<>>
    BY DEF Got, GotIn
  <2>8. QED BY <2>5, <2>6, <2>7 DEF IInv, PromiseInv, RegistryInv, Covered, Answered, Entry
<1>2. /\ HasReply(c)' <=> HasReply(c)
      /\ HasRefusal(c)' <=> HasRefusal(c)
      /\ ~HasEnd(c)
  BY <1>0, <1>1, <1>f, StagesRead, StagesReadNext DEF Sight, Final, Nested
<1>3. CASE pc[c] \notin {"wait", "waitT"}
  BY <1>2, <1>3 DEF Stage, Promise!Waiting
<1>4. CASE pc[c] \in {"wait", "waitT"} /\ (HasReply(c) \/ HasRefusal(c))
  BY <1>2, <1>4 DEF Stage, Promise!Waiting
<1>5. CASE pc[c] \in {"wait", "waitT"} /\ ~HasReply(c) /\ ~HasRefusal(c)
  <2>1. HasEnd(c)'
    BY <1>0, <1>2, <1>5, EndIsHeardNext
  <2>2. Stage(c)' = "cancelled" /\ Promise!Waiting(c)
    BY <1>2, <1>5, <2>1 DEF Stage, Promise!Waiting
  <2>3. QED BY <2>2
<1>6. QED BY <1>3, <1>4, <1>5

LEMMA CancelsPromises ==
  ASSUME PromiseInv, PromiseInv', CancelsAll, UNCHANGED <<pc, callId>>
  PROVE  [Promise!Next]_Promise!vars
<1>1. Phase = "closed" /\ Phase' = "over"
  BY DEF CancelsAll, Phase, PromiseInv, CalmInv, Calm
<1>2. \A c \in Callers : \/ Promise!Waiting(c) /\ Stage(c)' = "cancelled"
                         \/ ~Promise!Waiting(c) /\ Stage(c)' = Stage(c)
                         \/ Stage(c) = "called" /\ Stage(c)' = "cancelled"
  BY StageCancelled
<1> DEFINE S == {c \in Callers : Stage(c) = "called" /\ Stage(c)' = "cancelled"}
<1>3. \A c \in Callers : Promise!Waiting(c) => Stage(c) # "called"
  BY DEF Promise!Waiting
<1>4. \A c \in Callers :
        Stage(c)' = IF Promise!Waiting(c) \/ c \in S THEN "cancelled" ELSE Stage(c)
  BY <1>2, <1>3
<1>5. S \in SUBSET {c \in Callers : Stage(c) = "called"}
  OBVIOUS
<1> HIDE DEF S
<1>6. Promise!Cancel
  BY <1>1, <1>4, <1>5 DEF Promise!Cancel
<1>7. QED BY <1>6 DEF Promise!Next

(* As long as the loop runs, taking anything else off the queue leaves     *)
(* what is on its way; later nobody waits for it.                          *)
LEMMA StageGoesOn ==
  ASSUME PromiseInv, PromiseInv', GoesOn, NEW c \in Callers, UNCHANGED <<pc, callId, owed, made>>
  PROVE  Stage(c)' = Stage(c)
<1>1. SameChannels(c) /\ (loop \notin Early => loop' \notin Early)
  BY DEF GoesOn, SameChannels, Early
<1>2. ASSUME loop \in Early
      PROVE  (Returning(c)' <=> Returning(c)) /\ (Asked(c)' <=> Asked(c))
  <2>1. /\ loop' \in Early /\ IInv /\ IInv' /\ Traffic /\ Traffic' /\ UNCHANGED callId
        /\ UNCHANGED msgs \/ (msgs # <<>> /\ Head(msgs).type # "answer" /\ msgs' = Tail(msgs))
    BY <1>2 DEF GoesOn, PromiseInv, CalmInv, Early
  <2>2. \A x : WillBack(x, c) <=> Back(x, c)
    BY <2>1 DEF WillBack, Back, Final, Nested
  <2>3. (\E i \in AnswersAt' : WillBack(msgs'[i], c)) <=> \E i \in AnswersAt : Back(msgs[i], c)
    <3>1. CASE UNCHANGED msgs
      <4>1. AnswersAt' = AnswersAt
        BY <3>1 DEF AnswersAt
      <4>2. QED BY <2>2, <3>1, <4>1
    <3>2. CASE msgs # <<>> /\ Head(msgs).type # "answer" /\ msgs' = Tail(msgs)
      <4>1. msgs \in Seq(Message)
        BY <2>1 DEF IInv, TypeOK, Message
      <4>2. 1 \notin AnswersAt
        BY <3>2, <4>1 DEF AnswersAt
      <4>3. /\ \A i \in AnswersAt' : i + 1 \in AnswersAt /\ i + 1 # 1 /\ msgs'[i] = msgs[i + 1]
            /\ \A j \in AnswersAt : j # 1 => j - 1 \in AnswersAt' /\ msgs'[j - 1] = msgs[j]
        BY <2>1, <3>2, ShiftedAnswers
      <4>4. QED BY <2>2, <4>2, <4>3
    <3>3. QED BY <2>1, <3>1, <3>2
  <2>4. Returning(c)' <=> Returning(c)
    BY <2>1, <2>3, StagesReturn, StagesReturnNext DEF BackSight
  <2>5. Asked(c)' <=> Asked(c)
    BY <2>1, StagesReturn, StagesReturnNext DEF BackSight, Final, Nested
  <2>6. QED BY <2>4, <2>5
<1>3. QED BY <1>1, <1>2, StageStays

LEMMA GoesOnPromises ==
  ASSUME PromiseInv, PromiseInv', GoesOn, UNCHANGED <<pc, callId, owed, made>>
  PROVE  [Promise!Next]_Promise!vars
<1>1. \A c \in Callers : Stage(c)' = Stage(c)
  BY StageGoesOn
<1>2. UNCHANGED Phase \/ (Phase = "open" /\ Phase' = "closed")
  BY DEF GoesOn, Phase, Early, PromiseInv, CalmInv, Calm
<1>3. CASE UNCHANGED Phase
  BY <1>1, <1>3, NothingMoves
<1>4. CASE Phase = "open" /\ Phase' = "closed"
  BY <1>1, <1>4 DEF Promise!Next, Promise!Close
<1>5. QED BY <1>2, <1>3, <1>4

(* An answer to what a caller has asked, and the refusal that takes the    *)
(* wrapped call with it, are the reply to its call; the acceptance of      *)
(* SendMessageToTarget is not.                                             *)
LEMMA StageAnswered ==
  ASSUME Undisturbed, PromiseInv, PromiseInv', loop \in Early, loop' \in Early,
         NEW r \in owed, NEW ok \in BOOLEAN, MayAnswer(r, ok),
         owed' = {q \in owed : q # r /\ (ok \/ q.id # r.wraps)},
         msgs' = Append(msgs, AnswerTo(r, ok)),
         UNCHANGED <<pc, callId, calls, inbox, made>>,
         NEW c \in Callers
  PROVE  /\ r.from \notin OwnFrames(c) => Stage(c)' = Stage(c)
         /\ \/ Stage(c)' = Stage(c)
            \/ Stage(c) = "asked" /\ Stage(c)' = "replied"
<1> DEFINE a == AnswerTo(r, ok)
           n == Len(msgs) + 1
<1>f. T(c) \in Frames /\ B(c) \in Frames /\ T(c) # B(c)
  BY FrameFacts
<1>0. IInv /\ IInv' /\ Traffic /\ Traffic' /\ HeardInv /\ SameChannels(c)
  BY DEF PromiseInv, CalmInv, SameChannels
<1>1. a.type = "answer" /\ a.from = r.from /\ a.ok = ok /\ a \in Message
  BY <1>0 DEF AnswerTo, IInv, TypeOK, Request, Message, Answer
<1>2. /\ \A i \in AnswersAt : i \in AnswersAt' /\ msgs'[i] = msgs[i]
      /\ \A i \in AnswersAt' : i \in AnswersAt \/ i = n
      /\ msgs'[n] = a /\ n \in AnswersAt'
  BY <1>0, <1>1, AppendedAnswers
<1> HIDE DEF a, n
<1>3. /\ HasReply(c)' <=> HasReply(c)
      /\ HasRefusal(c)' <=> HasRefusal(c)
      /\ HasEnd(c)' <=> HasEnd(c)
  BY <1>0, SameSight
<1>4. Returning(c)' <=> Returning(c) \/ Back(a, c)
  <2>1. \A x : WillBack(x, c) <=> Back(x, c)
    BY DEF WillBack, Back, Final, Nested
  <2>2. (\E i \in AnswersAt' : WillBack(msgs'[i], c))
          <=> (\E i \in AnswersAt : Back(msgs[i], c)) \/ Back(a, c)
    BY <1>2, <2>1
  <2>3. QED BY <1>0, <2>2, StagesReturn, StagesReturnNext DEF BackSight
<1>5. Asked(c)' <=> \E q \in owed' : q.from = Final(c)
  BY <1>0, StagesReturnNext DEF Final, Nested
<1>6. Asked(c) <=> \E q \in owed : q.from = Final(c)
  BY <1>0, StagesReturn DEF BackSight
<1>t. /\ \A q \in owed : Live(q) /\ q.from \in Frames /\ q.id # None
      /\ callId \in [Frames -> Nat \cup {None}] /\ IdsDistinct
  BY <1>0, UnderWayTyped DEF Traffic, UnderWay, IInv, TypeOK, RegistryInv
<1>7. ASSUME NEW q \in owed, q \notin owed', q # r
      PROVE  ~ok /\ \E m \in Callers : r.from = B(m) /\ q.from = T(m)
  <2>1. ~ok /\ q.id = r.wraps
    BY <1>7
  <2>2. PICK m \in Callers : r.from = T(m) \/ r.from = B(m)
    BY <1>t, FrameOf
  <2>3. r.from = B(m) /\ q.id = callId[T(m)]
    BY <1>0, <1>t, <2>1, <2>2 DEF Traffic, Wraps
  <2>4. q.from = T(m)
    BY <1>t, <2>3, FrameFacts DEF Live, IdsDistinct
  <2>5. QED BY <2>1, <2>3, <2>4
<1>8. CASE r.from \notin OwnFrames(c)
  <2>1. ~Back(a, c)
    BY <1>1, <1>8 DEF Back, Final, OwnFrames
  <2>2. ASSUME NEW q \in owed, q.from = Final(c) PROVE q \in owed'
    <3>1. q # r
      BY <1>8, <2>2 DEF Final, OwnFrames
    <3>2. ASSUME NEW m \in Callers, r.from = B(m), q.from = T(m) PROVE FALSE
      <4>1. m = c
        BY <2>2, <3>2, FramesApart DEF Final
      <4>2. QED BY <1>8, <3>2, <4>1 DEF OwnFrames
    <3>3. QED BY <1>7, <3>1, <3>2
  <2>3. (Returning(c)' <=> Returning(c)) /\ (Asked(c)' <=> Asked(c))
    BY <1>4, <1>5, <1>6, <2>1, <2>2
  <2>4. QED BY <1>0, <2>3, StageStays
<1>9. CASE r.from = Final(c)
  <2>1. Live(r) /\ pc[c] \in {"wait", "waitT"}
    BY <1>t, <1>9 DEF Live, Final
  <2>2. Got(Final(c)) = "none"
    <3>1. inbox[Final(c)] = <<>>
      BY <1>0, <1>9, <1>t, <2>1, RegisteredIsUnanswered DEF Live
    <3>2. QED BY <3>1 DEF Got, GotIn
  <2>3. Nested(c) => Got(B(c)) # "error" /\ \A i \in AnswersAt : msgs[i].from = B(c) => msgs[i].ok
    <3>1. SUFFICES ASSUME Nested(c),
                          Got(B(c)) = "error" \/ \E i \in AnswersAt : msgs[i].from = B(c) /\ ~msgs[i].ok
                   PROVE  FALSE
      OBVIOUS
    <3>2. callId[B(c)] # None /\ ~Accepted(c)
      <4>1. CASE Got(B(c)) = "error"
        <5>1. inbox[B(c)] # <<>> /\ ~Accepted(c)
          BY <4>1 DEF Got, GotIn, Accepted, IsOk
        <5>2. QED BY <1>0, <1>f, <5>1 DEF IInv, RegistryInv, Replies
      <4>2. CASE \E i \in AnswersAt : msgs[i].from = B(c)
        <5>1. Entry(B(c)) \in calls /\ callId[B(c)] # None
          BY <1>0, <4>2, UnderWayTyped DEF Traffic, UnderWay, Live
        <5>2. inbox[B(c)] = <<>>
          BY <1>f, <1>0, <5>1, RegisteredIsUnanswered
        <5>3. QED BY <5>1, <5>2 DEF Accepted, IsOk
      <4>3. QED BY <3>1, <4>1, <4>2
    <3>3. pc[c] = "wait"
      BY <1>0, <2>1, <3>2 DEF IInv, Shape
    <3>4. \/ \E q \in owed : q.from = B(c)
          \/ \E j \in AnswersAt : OkAt(j, c)
      BY <1>0, <1>9, <3>1, <3>2, <3>3 DEF Traffic, InOrder, Final
    <3>5. Entry(B(c)) \in calls
      BY <1>0, <3>4 DEF Traffic, UnderWay, Live, OkAt
    <3>6. Got(B(c)) \in {"none", "end"}
      BY <1>0, <1>f, <3>2, <3>5 DEF HeardInv
    <3>7. PICK i \in AnswersAt : msgs[i].from = B(c) /\ ~msgs[i].ok
      BY <3>1, <3>6
    <3>8. QED BY <1>0, <3>4, <3>7 DEF Traffic, Single, OkAt
  <2>4. ~HasReply(c) /\ ~HasRefusal(c) /\ ~HasEnd(c)
    BY <1>0, <1>f, <2>2, <2>3, StagesRead DEF Sight, HeardInv
  <2>5. ~Returning(c)
    <3>1. \A i \in AnswersAt : msgs[i].from # r.from
      BY <1>0 DEF Traffic, Single
    <3>2. \A i \in AnswersAt : ~Back(msgs[i], c)
      BY <1>9, <2>3, <3>1 DEF Back
    <3>3. QED BY <1>0, <3>2, StagesReturn DEF BackSight
  <2>6. Returning(c)' /\ Asked(c)
    BY <1>1, <1>4, <1>6, <1>9 DEF Back
  <2>7. QED BY <1>3, <1>9, <2>1, <2>4, <2>5, <2>6 DEF Stage, Final, OwnFrames
<1>10. CASE r.from = B(c) /\ Nested(c) /\ ok
  <2>1. ~Back(a, c)
    BY <1>1, <1>10, <1>f DEF Back, Final
  <2>2. \A q \in owed : q.from = Final(c) => q \in owed'
    BY <1>7, <1>10, <1>f DEF Final
  <2>3. (Returning(c)' <=> Returning(c)) /\ (Asked(c)' <=> Asked(c))
    BY <1>4, <1>5, <1>6, <2>1, <2>2
  <2>4. Stage(c)' = Stage(c)
    BY <1>0, <2>3, StageStays
  <2>5. QED BY <2>4
<1>11. CASE r.from = B(c) /\ Nested(c) /\ ~ok
  <2>1. r.wraps = callId[T(c)] /\ r.wraps # None
    BY <1>0, <1>11 DEF Traffic, Wraps, Nested
  <2>2. PICK q \in owed : q.id = r.wraps
    BY <1>11, <2>1 DEF MayAnswer
  <2>3. q.from = T(c) /\ Entry(T(c)) \in calls
    BY <1>t, <1>f, <2>1, <2>2 DEF Live, IdsDistinct
  <2>4. inbox[T(c)] = <<>> /\ inbox[B(c)] = <<>>
    BY <1>0, <1>11, <1>f, <1>t, <2>3, RegisteredIsUnanswered DEF Live
  <2>5. Got(T(c)) = "none" /\ Got(B(c)) = "none"
    BY <2>4 DEF Got, GotIn
  <2>6. ~HasReply(c) /\ ~HasRefusal(c) /\ ~HasEnd(c)
    BY <1>0, <2>5, StagesRead DEF Sight, Final
  <2>7. ~Returning(c)
    <3>1. \A i \in AnswersAt : msgs[i].from # B(c) /\ msgs[i].from # T(c)
      BY <1>0, <1>11, <2>3 DEF Traffic, Single
    <3>2. \A i \in AnswersAt : ~Back(msgs[i], c)
      BY <3>1 DEF Back, Final
    <3>3. QED BY <1>0, <3>2, StagesReturn DEF BackSight
  <2>8. Returning(c)' /\ Asked(c)
    BY <1>1, <1>4, <1>6, <1>11, <2>3 DEF Back, Final
  <2>9. pc[c] = "wait"
    BY <1>t, <1>11 DEF Live
  <2>10. QED BY <1>3, <1>11, <2>6, <2>7, <2>8, <2>9 DEF Stage, OwnFrames
<1>12. r.from = T(c) => Nested(c)
  BY <1>t DEF Live, Nested
<1>13. QED BY <1>8, <1>9, <1>10, <1>11, <1>12 DEF OwnFrames, Final

LEMMA AnswersPromise ==
  ASSUME Undisturbed, PromiseInv, PromiseInv', AnswersOne,
         UNCHANGED <<pc, callId, calls, inbox, made, loop, open>>
  PROVE  [Promise!Next]_Promise!vars
<1>1. PICK r \in owed, ok \in BOOLEAN :
        /\ MayAnswer(r, ok)
        /\ owed' = {q \in owed : q # r /\ (ok \/ q.id # r.wraps)}
        /\ msgs' = Append(msgs, AnswerTo(r, ok)) \/ (loop = "done" /\ UNCHANGED msgs)
  BY DEF AnswersOne
<1>2. UNCHANGED Phase
  BY DEF Phase
<1>3. CASE loop \notin Early
  <2>1. \A c \in Callers : SameChannels(c)
    BY DEF SameChannels
  <2>2. \A c \in Callers : Stage(c)' = Stage(c)
    BY <1>3, <2>1, StageStays
  <2>3. QED BY <1>2, <2>2, NothingMoves
<1>4. CASE loop \in Early
  <2>1. /\ loop' \in Early /\ msgs' = Append(msgs, AnswerTo(r, ok))
    BY <1>1, <1>4 DEF Early
  <2>2. PICK m \in Callers : r.from \in OwnFrames(m)
    BY UnderWayTyped, FrameOf DEF PromiseInv, OwnFrames
  <2>3. \A c \in Callers \ {m} : r.from \notin OwnFrames(c)
    BY <2>2, FramesApart DEF OwnFrames
  <2>4. \A c \in Callers :
          /\ r.from \notin OwnFrames(c) => Stage(c)' = Stage(c)
          /\ \/ Stage(c)' = Stage(c)
             \/ Stage(c) = "asked" /\ Stage(c)' = "replied"
    BY <1>1, <1>4, <2>1, StageAnswered
  <2>5. \A c \in Callers \ {m} : Stage(c)' = Stage(c)
    BY <2>3, <2>4
  <2>6. CASE Stage(m)' = Stage(m)
    BY <1>2, <2>5, <2>6, NothingMoves
  <2>7. CASE Stage(m) = "asked" /\ Stage(m)' = "replied"
    BY <1>2, <2>5, <2>7, MovesGo DEF Moves, Promise!Next, Promise!Reply
  <2>8. QED BY <2>4, <2>6, <2>7
<1>5. QED BY <1>3, <1>4

(* What is owed may be lost; nothing else around the calls is seen.        *)
LEMMA AroundPromises ==
  ASSUME PromiseInv, PromiseInv', HappensAround,
         UNCHANGED <<pc, callId, calls, inbox, made, loop, open>>
  PROVE  [Promise!Next]_Promise!vars
<1>1. UNCHANGED Phase
  BY DEF Phase
<1>2. \A c \in Callers : SameChannels(c)
  BY DEF SameChannels
<1>3. CASE loop \notin Early
  BY <1>1, <1>2, <1>3, StageStays, NothingMoves
<1>4. CASE loop \in Early
  <2>1. IInv /\ IInv' /\ Traffic /\ Traffic'
    BY <1>4 DEF PromiseInv, CalmInv
  <2>2. AnswersAt' = AnswersAt /\ \A i \in AnswersAt : msgs'[i] = msgs[i]
    <3>1. CASE UNCHANGED msgs
      BY <3>1 DEF AnswersAt
    <3>2. ASSUME NEW m \in Message, m.type # "answer", msgs' = Append(msgs, m)
          PROVE  AnswersAt' = AnswersAt /\ \A i \in AnswersAt : msgs'[i] = msgs[i]
      BY <2>1, <3>2, AppendedAnswers
    <3>3. QED BY <3>1, <3>2 DEF HappensAround
  <2>3. ASSUME NEW c \in Callers
        PROVE  /\ Returning(c)' <=> Returning(c)
               /\ Asked(c)' <=> \E q \in owed' : q.from = Final(c)
               /\ Asked(c) <=> \E q \in owed : q.from = Final(c)
    <3>1. \A x : WillBack(x, c) <=> Back(x, c)
      BY DEF WillBack, Back, Final, Nested
    <3>2. Returning(c)' <=> Returning(c)
      BY <2>1, <2>2, <3>1, StagesReturn, StagesReturnNext DEF BackSight
    <3>3. QED BY <2>1, <3>2, StagesReturn, StagesReturnNext DEF BackSight, Final, Nested
  <2>4. CASE UNCHANGED owed
    BY <1>1, <1>2, <2>3, <2>4, StageStays, NothingMoves
  <2>5. CASE owed' = {}
    <3>1. \A c \in Callers : Stage(c)' = IF Stage(c) = "asked" THEN "lost" ELSE Stage(c)
      <4>1. SUFFICES ASSUME NEW c \in Callers
                     PROVE  Stage(c)' = IF Stage(c) = "asked" THEN "lost" ELSE Stage(c)
        OBVIOUS
      <4>2. /\ HasReply(c)' <=> HasReply(c)
            /\ HasRefusal(c)' <=> HasRefusal(c)
            /\ HasEnd(c)' <=> HasEnd(c)
        BY <1>2, <2>1, SameSight
      <4>3. ~Asked(c)' /\ (Returning(c)' <=> Returning(c))
        BY <2>3, <2>5
      <4>4. QED BY <4>2, <4>3 DEF Stage
    <3> DEFINE S == {c \in Callers : Stage(c) = "asked"}
    <3>2. \A c \in Callers : Stage(c)' = IF c \in S THEN "lost" ELSE Stage(c)
      BY <3>1
    <3>3. S \in SUBSET {c \in Callers : Stage(c) \in {"asked", "replied"}}
      OBVIOUS
    <3> HIDE DEF S
    <3>4. Promise!Lose
      BY <1>1, <3>2, <3>3 DEF Promise!Lose
    <3>5. QED BY <3>4 DEF Promise!Next
  <2>6. QED BY <2>4, <2>5 DEF HappensAround
<1>5. QED BY <1>3, <1>4

LEMMA PromiseInit == Init => Promise!Init
<1> SUFFICES ASSUME Init PROVE Promise!Init
  OBVIOUS
<1>1. \A c \in Callers : Stage(c) = "idle"
  BY DEF Init, Stage
<1>2. Phase = "open"
  BY DEF Init, Phase
<1>3. QED BY <1>1, <1>2 DEF Promise!Init

LEMMA HeardInit == Init => HeardInv
BY DEF Init, HeardInv, Got, GotIn

LEMMA PromiseInvNext ==
  ASSUME Undisturbed, PromiseInv, [Next]_vars
  PROVE  PromiseInv'
BY NextIInv, CalmInvNext, HeardNext DEF PromiseInv

LEMMA PromiseNext ==
  ASSUME Undisturbed, PromiseInv, PromiseInv', [Next]_vars
  PROVE  [Promise!Next]_Promise!vars
<1>1. ASSUME NEW c \in Callers,
             CallerStep(c) \/ \E d \in {"target", "browser"} : StartCall(c, d)
      PROVE  [Promise!Next]_Promise!vars
  BY <1>1, CallerKeepsOthers, CallerPromises DEF PromiseInv
<1>2. CASE LoopStep
  <2>1. LoopMove /\ UNCHANGED <<pc, callId, owed, made>>
    BY <1>2, LoopMoves DEF PromiseInv
  <2>2. QED BY <2>1, DeliversPromises, CancelsPromises, GoesOnPromises DEF LoopMove
<1>3. CASE Environment
  <2>1. /\ AnswersOne \/ HappensAround
        /\ UNCHANGED <<pc, callId, calls, inbox, made, loop, open>>
    BY <1>3, EnvironmentMoves DEF PromiseInv
  <2>2. QED BY <2>1, AnswersPromise, AroundPromises
<1>4. CASE UNCHANGED vars
  <2>1. HappensAround /\ UNCHANGED <<pc, callId, calls, inbox, made, loop, open>>
    BY <1>4 DEF vars, callerVars, chromeVars, HappensAround
  <2>2. QED BY <2>1, AroundPromises
<1>5. QED
  BY <1>1, <1>2, <1>3, <1>4, NextCases

(* Undisturbed, the transport implements CallService: each call_method is  *)
(* asked while the connection is open, and comes back with its own reply,  *)
(* a refusal, or the end, of which all who wait are told.                  *)
THEOREM TransportServesCalls ==
  ASSUME Undisturbed
  PROVE  Spec => CallsAreServed
<1>1. Init => PromiseInv
  BY InitIInv, CalmInit, HeardInit DEF PromiseInv
<1>2. PromiseInv /\ [Next]_vars => PromiseInv'
  BY PromiseInvNext
<1>3. PromiseInv /\ PromiseInv' /\ [Next]_vars => [Promise!Next]_Promise!vars
  BY PromiseNext
<1>4. QED
  BY <1>1, <1>2, <1>3, PromiseInit, PTL DEF Spec, CallsAreServed, Promise!Spec

-----------------------------------------------------------------------------
(* What follows from the promise alone.                                    *)
LEMMA StagesAreTyped == CallsAreServed => []Promise!TypeOK
<1>1. Promise!Init => Promise!TypeOK
  BY DEF Promise!Init, Promise!TypeOK, Promise!Phases, Promise!Stages
<1>2. Promise!TypeOK /\ [Promise!Next]_Promise!vars => Promise!TypeOK'
  <2> SUFFICES ASSUME Promise!TypeOK, [Promise!Next]_Promise!vars PROVE Promise!TypeOK'
    OBVIOUS
  <2>1. ASSUME NEW c \in Callers, NEW from, NEW to \in SUBSET Promise!Stages,
               Promise!Goes(c, from, to)
        PROVE  Promise!TypeOK'
    BY <2>1 DEF Promise!TypeOK, Promise!Goes
  <2>2. ASSUME NEW c \in Callers,
               \/ Promise!Call(c) \/ Promise!Ask(c) \/ Promise!Reply(c)
               \/ Promise!Deliver(c) \/ Promise!Fail(c) \/ Promise!Return(c)
        PROVE  Promise!TypeOK'
    <3>1. \A s \in {{"called"}, {"asked", "lost"}, {"replied"},
                    {"answered", "refused"}, {"failing"}, {"idle"}} : s \in SUBSET Promise!Stages
      BY DEF Promise!Stages
    <3> QED
      BY <2>1, <2>2, <3>1 DEF Promise!Call, Promise!Ask, Promise!Reply, Promise!Deliver,
         Promise!Fail, Promise!Return
  <2>3. CASE Promise!Lose
    BY <2>3 DEF Promise!Lose, Promise!TypeOK, Promise!Stages
  <2>4. CASE Promise!Close
    BY <2>4 DEF Promise!Close, Promise!TypeOK, Promise!Phases
  <2>5. CASE Promise!Cancel
    BY <2>5 DEF Promise!Cancel, Promise!TypeOK, Promise!Phases, Promise!Stages
  <2>6. CASE UNCHANGED Promise!vars
    BY <2>6 DEF Promise!vars, Promise!TypeOK
  <2> QED
    BY <2>2, <2>3, <2>4, <2>5, <2>6 DEF Promise!Next
<1> QED
  BY <1>1, <1>2, PTL DEF CallsAreServed, Promise!Spec

(* When the service is over, no call_method waits any more, nor will one   *)
(* that begins late: the cancellation reaches all who asked, and asking    *)
(* needs an open service.                                                  *)
THEOREM NobodyWaitsForAnEndedService == CallsAreServed => []Promise!NobodyIsLeftWaiting
<1>1. Promise!Init => Promise!NobodyIsLeftWaiting
  BY DEF Promise!Init, Promise!NobodyIsLeftWaiting
<1>2. Promise!TypeOK /\ Promise!NobodyIsLeftWaiting /\ [Promise!Next]_Promise!vars
        => Promise!NobodyIsLeftWaiting'
  <2> SUFFICES ASSUME Promise!TypeOK, Promise!NobodyIsLeftWaiting,
                      [Promise!Next]_Promise!vars, Phase' = "over", NEW d \in Callers
               PROVE  ~Promise!Waiting(d)'
    BY DEF Promise!NobodyIsLeftWaiting
  <2>1. ASSUME NEW c \in Callers, NEW from, NEW to, Promise!Goes(c, from, to),
               "asked" \notin to, "lost" \notin to, "replied" \notin to
        PROVE  ~Promise!Waiting(d)'
    BY <2>1 DEF Promise!Goes, Promise!Waiting, Promise!TypeOK, Promise!NobodyIsLeftWaiting
  <2>2. ASSUME NEW c \in Callers, Promise!Call(c) \/ Promise!Ask(c) PROVE FALSE
    BY <2>2 DEF Promise!Call, Promise!Ask, Promise!Goes
  <2>3. ASSUME NEW c \in Callers, Promise!Reply(c) PROVE FALSE
    BY <2>3 DEF Promise!Reply, Promise!Goes, Promise!NobodyIsLeftWaiting, Promise!Waiting
  <2>4. ASSUME NEW c \in Callers, Promise!Deliver(c) \/ Promise!Fail(c) \/ Promise!Return(c)
        PROVE  ~Promise!Waiting(d)'
    BY <2>1, <2>4 DEF Promise!Deliver, Promise!Fail, Promise!Return
  <2>5. CASE Promise!Lose
    BY <2>5 DEF Promise!Lose, Promise!NobodyIsLeftWaiting, Promise!Waiting, Promise!TypeOK
  <2>6. CASE Promise!Close
    BY <2>6 DEF Promise!Close
  <2>7. CASE Promise!Cancel
    BY <2>7 DEF Promise!Cancel, Promise!Waiting, Promise!TypeOK
  <2>8. CASE UNCHANGED Promise!vars
    BY <2>8 DEF Promise!vars, Promise!NobodyIsLeftWaiting, Promise!Waiting
  <2> QED
    BY <2>2, <2>3, <2>4, <2>5, <2>6, <2>7, <2>8 DEF Promise!Next
<1> QED
  BY <1>1, <1>2, StagesAreTyped, PTL DEF CallsAreServed, Promise!Spec
=============================================================================
