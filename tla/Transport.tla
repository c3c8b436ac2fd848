----------------------------- MODULE Transport -----------------------------
(***************************************************************************)
(* The DevTools connection: browser/transport/{mod, waiting_call_registry, *)
(* web_socket_connection}.rs.  Application threads (Callers) run           *)
(* Transport::call_method, which registers an id, writes to the socket and *)
(* polls a channel.  The WebSocket thread forwards what Chrome sends to    *)
(* the message loop, which resolves registered calls and routes events.    *)
(* When the loop ends it closes the connection and cancels every call.     *)
(*                                                                         *)
(* One action is one atomic step of a thread: an atomic load, one          *)
(* mutex-guarded section, or one channel operation with the thread-local   *)
(* code after it.  A call to a target is two activations of call_method:   *)
(* the "target" one, and the "browser" one (SendMessageToTarget) nested in *)
(* it; each is a frame, with its own id and its own reply channel.         *)
(*                                                                         *)
(* Payloads are abstracted to the request they answer.  Call ids are       *)
(* naturals: the model covers the ids before the u32 counter wraps.        *)
(***************************************************************************)
EXTENDS Naturals, Sequences

CONSTANTS
  Callers,      \* application threads sharing the Transport
  Listeners,    \* ListenerIds: the sessions of targets, and Browser
  Browser,
  None,         \* no call id
  MaxCalls,     \* bound: calls each caller starts, by caller
  MaxEvents,    \* bound: events Chrome sends
  WaitsExpire,  \* may a caller's Wait run out?
  OuterFirst,   \* may a target's answer overtake SendMessageToTarget's own?
  Mortal        \* listeners whose receiving thread may end by itself

Frames    == Callers \X {"target", "browser"}
T(c) == <<c, "target">>
B(c) == <<c, "browser">>

ASSUME BoundsAreNat == MaxCalls \in [Callers -> Nat] /\ MaxEvents \in Nat
ASSUME FlagsAreBoolean == WaitsExpire \in BOOLEAN /\ OuterFirst \in BOOLEAN
ASSUME NoneIsNoId == None \notin Nat
ASSUME MortalListeners == Mortal \subseteq Listeners

VARIABLES
  open,       \* Transport.open
  nextId,     \* Transport.call_id_counter
  calls,      \* WaitingCallRegistry.calls: the senders, by id
  poisoned,   \* mutexes poisoned by a panic: "calls", "listeners"
  pc,         \* where each caller is in call_method
  made,       \* calls each caller has started
  callId,     \* id of the call a frame waits for; None: its receiver is dropped
  inbox,      \* content of a frame's reply channel
  socket,     \* what a sender meets: "open", "lost" (peer gone), "closed"
  ws,         \* the WebSocket thread: "reading", "done", "panicked"
  msgs,       \* the mpsc channel from the WebSocket thread to the loop
  loop,       \* where the loop thread is
  stop,       \* Transport::shutdown: "no", "closing", "sent"
  listeners,  \* listeners with a sender in the map
  deadRx,     \* listeners whose receiver is dropped
  owed,       \* Chrome: requests it may still answer; none it received
              \* before the WebSocket thread ended
  events      \* Chrome: events sent so far

callerVars == <<pc, made, callId, inbox>>
chromeVars == <<owed, events>>
routeVars  == <<listeners, deadRx>>
vars == <<open, nextId, calls, poisoned, callerVars, socket, ws, msgs, loop,
          stop, routeVars, chromeVars>>

(* The requests of a frame are told apart by the caller's call number.     *)
Request == [id : Nat, from : Frames, nth : Nat, wraps : Nat \cup {None}]
Answer  == [type : {"answer"}, id : Nat, from : Frames, nth : Nat, ok : BOOLEAN]
Event   == [type : {"event"}, to : Listeners]
Closed  == [type |-> "closed"]
ConnectionShutdown == [type |-> "shutdown"]

CallerPCs == {"idle", "registerT", "check", "register", "send", "unregister",
              "wait", "expired", "unregisterT", "waitT", "expiredT", "panicked"}
LoopPCs == {"check", "recv", "shutdown", "close", "cancel", "clear", "done",
            "panicked"}

TypeOK ==
  /\ open \in BOOLEAN
  /\ nextId \in Nat
  /\ calls \in SUBSET [id : Nat, rx : Frames]
  /\ poisoned \in SUBSET {"calls", "listeners"}
  /\ pc \in [Callers -> CallerPCs]
  /\ made \in [Callers -> Nat] /\ \A c \in Callers : made[c] <= MaxCalls[c]
  /\ callId \in [Frames -> Nat \cup {None}]
  /\ inbox \in [Frames -> Seq(Answer \cup {Closed})]
  /\ socket \in {"open", "lost", "closed"}
  /\ ws \in {"reading", "done", "panicked"}
  /\ msgs \in Seq(Answer \cup Event \cup {ConnectionShutdown})
  /\ loop \in LoopPCs
  /\ stop \in {"no", "closing", "sent"}
  /\ listeners \in SUBSET Listeners
  /\ deadRx \in SUBSET Listeners
  /\ owed \in SUBSET Request
  /\ events \in 0..MaxEvents

Init ==
  /\ open = TRUE
  /\ nextId = 0
  /\ calls = {}
  /\ poisoned = {}
  /\ pc = [c \in Callers |-> "idle"]
  /\ made = [c \in Callers |-> 0]
  /\ callId = [f \in Frames |-> None]
  /\ inbox = [f \in Frames |-> <<>>]
  /\ socket = "open"
  /\ ws = "reading"
  /\ msgs = <<>>
  /\ loop = "check"
  /\ stop = "no"
  /\ listeners = {}
  /\ deadRx = {}
  /\ owed = {}
  /\ events = 0

-----------------------------------------------------------------------------
(* The registry: a HashMap from id to sender under one mutex.              *)

Registered(id) == \E e \in calls : e.id = id

(* Mutant: HashMap::get where the code says remove.                        *)
Mut_NotRemoved(id) == calls
Removed(id) == {e \in calls : e.id # id}

(* Mutants: the counter is read and not incremented; the sender is filed   *)
(* under the thread, not the activation.                                   *)
Mut_SameId(f) ==
  /\ callId' = [callId EXCEPT ![f] = nextId]
  /\ calls' = Removed(nextId) \cup {[id |-> nextId, rx |-> f]}
  /\ UNCHANGED nextId
Mut_RegisterThread(f) ==
  /\ callId' = [callId EXCEPT ![f] = nextId]
  /\ calls' = Removed(nextId) \cup {[id |-> nextId, rx |-> f[1]]}
  /\ nextId' = nextId + 1
RegisterCall(f) ==
  /\ callId' = [callId EXCEPT ![f] = nextId]
  /\ calls' = Removed(nextId) \cup {[id |-> nextId, rx |-> f]}
  /\ nextId' = nextId + 1

(* Mutant: the map is drained.                                             *)
Mut_CancelDrains ==
  /\ inbox' = [f \in Frames |->
                 IF \E e \in calls : e.rx = f /\ e.id = callId[f]
                 THEN Append(inbox[f], Closed) ELSE inbox[f]]
  /\ calls' = {}
(* Entries are told of the end of the connection and stay in the map.      *)
CancelOutstandingMethodCalls ==
  /\ inbox' = [f \in Frames |->
                 IF \E e \in calls : e.rx = f /\ e.id = callId[f]
                 THEN Append(inbox[f], Closed) ELSE inbox[f]]
  /\ UNCHANGED calls

-----------------------------------------------------------------------------
(* Callers: Transport::call_method.                                        *)

Goto(c, label) == pc' = [pc EXCEPT ![c] = label]
Nested(c) == callId[T(c)] # None

(* The receivers of these frames go out of scope.                          *)
DropReceivers(S) ==
  /\ callId' = [f \in Frames |-> IF f \in S THEN None ELSE callId[f]]
  /\ inbox' = [f \in Frames |-> IF f \in S THEN <<>> ELSE inbox[f]]

Return(c) == Goto(c, "idle") /\ DropReceivers({T(c), B(c)})

(* A failed lock().unwrap() or remove().unwrap() kills the caller's thread. *)
CallerPanics(c) ==
  /\ Goto(c, "panicked")
  /\ DropReceivers({T(c), B(c)})
  /\ poisoned' = poisoned \cup {"calls"}
  /\ UNCHANGED <<calls, nextId>>

NotCaller == UNCHANGED <<open, socket, ws, msgs, loop, stop, routeVars, events>>

(* The activation entered by the application: its check of `open`.         *)
StartCall(c, dest) ==
  /\ pc[c] = "idle" /\ made[c] < MaxCalls[c]
  /\ made' = [made EXCEPT ![c] = @ + 1]
  /\ Goto(c, IF ~open THEN "idle"
             ELSE IF dest = "target" THEN "registerT" ELSE "register")
  /\ UNCHANGED <<nextId, calls, poisoned, callId, inbox, owed>> /\ NotCaller

(* unique_call_id and register_call; the id is fetched without a lock, and *)
(* nothing of it shows before the registration.                            *)
Register(c, f, from, to) ==
  /\ pc[c] = from
  /\ \/ /\ "calls" \notin poisoned
        /\ RegisterCall(f)
        /\ Goto(c, to)
        /\ UNCHANGED <<poisoned, inbox>>
     \/ "calls" \in poisoned /\ CallerPanics(c)
  /\ UNCHANGED <<made, owed>> /\ NotCaller

RegisterTarget(c)  == Register(c, T(c), "registerT", "check")
RegisterBrowser(c) == Register(c, B(c), "register", "send")

(* The nested activation's own check of `open`.                            *)
CheckNested(c) ==
  /\ pc[c] = "check"
  /\ Goto(c, IF open THEN "register" ELSE "unregisterT")
  /\ UNCHANGED <<nextId, calls, poisoned, made, callId, inbox, owed>> /\ NotCaller

NewRequests(c) ==
  {[id |-> callId[B(c)], from |-> B(c), nth |-> made[c], wraps |-> callId[T(c)]]}
  \cup {[id |-> callId[f], from |-> f, nth |-> made[c], wraps |-> None] :
          f \in {g \in {T(c)} : Nested(c)}}

(* WebSocketConnection::send_message.  A write to a peer that is gone may  *)
(* still succeed: the kernel takes it.                                     *)
Send(c) ==
  /\ pc[c] = "send"
  /\ \/ socket = "open" /\ Goto(c, "wait") /\ owed' = owed \cup NewRequests(c)
     \/ socket = "lost" /\ Goto(c, "wait") /\ UNCHANGED owed
     \/ socket # "open" /\ Goto(c, "unregister") /\ UNCHANGED owed
  /\ UNCHANGED <<nextId, calls, poisoned, made, callId, inbox>> /\ NotCaller

(* Mutant: the error is passed on by `?`, without unregistering.           *)
Mut_FailsAtOnce(c) == Return(c)
(* The browser activation returns Err, to the target one if it is nested.  *)
BrowserCallFails(c) ==
  /\ Goto(c, IF Nested(c) THEN "unregisterT" ELSE "idle")
  /\ DropReceivers({B(c)})

(* unregister_call, whose remove().unwrap() panics on an unknown id.       *)
Unregister(c) ==
  /\ pc[c] = "unregister"
  /\ LET known == "calls" \notin poisoned /\ Registered(callId[B(c)]) IN
     \/ known /\ calls' = Removed(callId[B(c)]) /\ BrowserCallFails(c)
              /\ UNCHANGED <<poisoned, nextId>>
     \/ ~known /\ CallerPanics(c)
  /\ UNCHANGED <<made, owed>> /\ NotCaller

UnregisterTarget(c) ==
  /\ pc[c] = "unregisterT"
  /\ LET known == "calls" \notin poisoned /\ Registered(callId[T(c)]) IN
     \/ known /\ calls' = Removed(callId[T(c)]) /\ Return(c)
              /\ UNCHANGED <<poisoned, nextId>>
     \/ ~known /\ CallerPanics(c)
  /\ UNCHANGED <<made, owed>> /\ NotCaller

(* Wait::until's poll finds the browser activation's answer.  Once         *)
(* SendMessageToTarget is answered, a nested caller waits for the target.  *)
ReceiveBrowser(c) ==
  /\ pc[c] = "wait" /\ inbox[B(c)] # <<>>
  /\ LET reply   == Head(inbox[B(c)])
         success == reply # Closed /\ (Nested(c) => reply.ok)
     IN \/ /\ success
           /\ Goto(c, IF Nested(c) THEN "waitT" ELSE "idle")
           /\ DropReceivers({B(c)})
        \/ ~success /\ BrowserCallFails(c)
  /\ UNCHANGED <<nextId, calls, poisoned, made, owed>> /\ NotCaller

ReceiveTarget(c) ==
  /\ pc[c] = "waitT" /\ inbox[T(c)] # <<>>
  /\ Return(c)
  /\ UNCHANGED <<nextId, calls, poisoned, made, owed>> /\ NotCaller

(* The last poll before the time is up finds nothing...                    *)
LastPoll(c) ==
  /\ WaitsExpire
  /\ \/ pc[c] = "wait" /\ inbox[B(c)] = <<>> /\ Goto(c, "expired")
     \/ pc[c] = "waitT" /\ inbox[T(c)] = <<>> /\ Goto(c, "expiredT")
  /\ UNCHANGED <<nextId, calls, poisoned, made, callId, inbox, owed>> /\ NotCaller

(* ... and Wait returns Timeout.  The id that was waited for stays in the  *)
(* registry; an enclosing target activation unregisters its own.           *)
TimeOut(c) ==
  /\ \/ pc[c] = "expired" /\ BrowserCallFails(c)
     \/ pc[c] = "expiredT" /\ Return(c)
  /\ UNCHANGED <<nextId, calls, poisoned, made, owed>> /\ NotCaller

CallerStep(c) ==
  \/ RegisterTarget(c) \/ CheckNested(c) \/ RegisterBrowser(c) \/ Send(c)
  \/ Unregister(c) \/ UnregisterTarget(c)
  \/ ReceiveBrowser(c) \/ ReceiveTarget(c) \/ LastPoll(c) \/ TimeOut(c)

-----------------------------------------------------------------------------
(* Shutting down: Transport::shutdown, on the thread that drops Browser.   *)
(* WebSocketConnection::shutdown makes every later send fail.              *)

NotApp == UNCHANGED <<open, nextId, calls, poisoned, callerVars, ws, msgs, loop,
                      chromeVars>>

ShutdownSocket ==
  /\ stop = "no" /\ stop' = "closing"
  /\ socket' = "closed"
  /\ UNCHANGED routeVars /\ NotApp

ShutdownSignal ==
  /\ stop = "closing" /\ stop' = "sent"
  /\ UNCHANGED <<socket, routeVars>> /\ NotApp

(* listen_to_browser_events and listen_to_target_events.                   *)
Listen(l) ==
  /\ l \notin listeners \/ l \in deadRx
  /\ "listeners" \notin poisoned
  /\ listeners' = listeners \cup {l}
  /\ deadRx' = deadRx \ {l}
  /\ UNCHANGED <<socket, stop>> /\ NotApp

(* The thread reading a listener's events ends.                            *)
ReceiverEnds(l) ==
  /\ l \in (Mortal \cap listeners) \ deadRx
  /\ deadRx' = deadRx \cup {l}
  /\ UNCHANGED <<socket, stop, listeners>> /\ NotApp

-----------------------------------------------------------------------------
(* Chrome and the WebSocket thread (dispatch_incoming_messages).  Chrome   *)
(* answers in any order, so that sending, the wire and the reading thread  *)
(* are one step, which ends with messages_tx.send.                         *)

NotWs == UNCHANGED <<open, nextId, calls, poisoned, callerVars, loop, stop,
                     routeVars>>

LoopEnded == loop \in {"done", "panicked"}

(* A send to the loop's dropped receiver ends the WebSocket thread.        *)
Forward(m) ==
  \/ ~LoopEnded /\ msgs' = Append(msgs, m) /\ UNCHANGED ws
  \/ LoopEnded /\ ws' = "done" /\ UNCHANGED msgs

(* Chrome's answers: an error to SendMessageToTarget means that the wrapped *)
(* call never reached its target.                                          *)
MayAnswer(r, ok) ==
  /\ OuterFirst \/ \A q \in owed : q.wraps # r.id
  /\ ok \/ r.wraps = None \/ \E q \in owed : q.id = r.wraps

WsForwardsAnswer(r, ok) ==
  /\ ws = "reading" /\ MayAnswer(r, ok)
  /\ owed' = {q \in owed : q # r /\ (ok \/ q.id # r.wraps)}
  /\ Forward([type |-> "answer", id |-> r.id, from |-> r.from, nth |-> r.nth, ok |-> ok])
  /\ UNCHANGED <<socket, events>> /\ NotWs

WsForwardsEvent(l) ==
  /\ ws = "reading" /\ events < MaxEvents
  /\ events' = events + 1
  /\ Forward([type |-> "event", to |-> l])
  /\ UNCHANGED <<socket, owed>> /\ NotWs

(* A normal close frame, a reset or an I/O error: the thread tells the     *)
(* loop, if it is still there.  After a reset the next write may succeed.  *)
WsCloses ==
  /\ ws = "reading" /\ ws' = "done"
  /\ socket' \in {"closed"} \cup {s \in {"lost"} : socket # "closed"}
  /\ msgs' = IF LoopEnded THEN msgs ELSE Append(msgs, ConnectionShutdown)
  /\ owed' = {}
  /\ UNCHANGED events /\ NotWs

(* An abnormal close code or an unexpected frame or error: the thread dies *)
(* with messages_tx, and says nothing to the loop.                         *)
WsPanics ==
  /\ ws = "reading" /\ ws' = "panicked"
  /\ socket' \in {socket, "closed"}
  /\ owed' = {}
  /\ UNCHANGED <<msgs, events>> /\ NotWs

-----------------------------------------------------------------------------
(* The message loop: handle_incoming_messages.                             *)

NotLoop == UNCHANGED <<nextId, pc, made, callId, ws, stop, deadRx, chromeVars>>

(* Mutants: the socket is shut after the calls are cancelled; calls are    *)
(* not cancelled; listeners are not cleared.                               *)
Mut_CancelFirst == [break |-> "close", close |-> "cancel", cancel |-> "shutdown",
                    shutdown |-> "clear", clear |-> "done"]
Mut_NoCancel == [break |-> "shutdown", shutdown |-> "close", close |-> "clear",
                 cancel |-> "clear", clear |-> "done"]
Mut_NoClear == [break |-> "shutdown", shutdown |-> "close", close |-> "cancel",
                cancel |-> "done", clear |-> "done"]
(* Where the loop goes when it breaks, and then after each tail step.      *)
TailOrder == [break |-> "shutdown", shutdown |-> "close", close |-> "cancel",
              cancel |-> "clear", clear |-> "done"]

(* The thread takes the receiver of msgs with it.                          *)
LoopPanics(mutex) ==
  /\ loop' = "panicked" /\ msgs' = <<>>
  /\ poisoned' = poisoned \cup {mutex}

LoopChecksShutdown ==
  /\ loop = "check"
  /\ loop' = IF stop = "sent" THEN TailOrder.break ELSE "recv"
  /\ UNCHANGED <<open, calls, poisoned, inbox, socket, msgs, listeners>> /\ NotLoop

(* recv_timeout ran out, or the WebSocket thread is gone.                  *)
LoopHearsNothing ==
  /\ loop = "recv" /\ msgs = <<>>
  /\ loop' = TailOrder.break
  /\ UNCHANGED <<open, calls, poisoned, inbox, socket, msgs, listeners>> /\ NotLoop

Takes(type) ==
  loop = "recv" /\ msgs # <<>> /\ Head(msgs).type = type

Continue == loop' = "check" /\ msgs' = Tail(msgs)
Break    == loop' = TailOrder.break /\ msgs' = Tail(msgs)

LoopHearsShutdown ==
  /\ Takes("shutdown")
  /\ Break
  /\ UNCHANGED <<open, calls, poisoned, inbox, socket, listeners>> /\ NotLoop

(* resolve_call: an answer nobody registered for panics with the registry  *)
(* locked; one whose caller has gone breaks the loop.                      *)
LoopResolvesCall ==
  /\ Takes("answer")
  /\ LET answer == Head(msgs)
         entry  == CHOOSE e \in calls : e.id = answer.id
     IN \/ /\ "calls" \in poisoned \/ ~Registered(answer.id)
           /\ LoopPanics("calls")
           /\ UNCHANGED <<calls, inbox>>
        \/ /\ "calls" \notin poisoned /\ Registered(answer.id)
           /\ calls' = Removed(answer.id)
           /\ UNCHANGED poisoned
           /\ \/ /\ callId[entry.rx] = answer.id
                 /\ inbox' = [inbox EXCEPT ![entry.rx] = Append(@, answer)]
                 /\ Continue
              \/ /\ callId[entry.rx] # answer.id
                 /\ Break
                 /\ UNCHANGED inbox
  /\ UNCHANGED <<open, socket, listeners>> /\ NotLoop

(* A browser event for a dropped receiver breaks the loop; a target event  *)
(* for one panics with the listeners locked.                               *)
LoopRoutesEvent ==
  /\ Takes("event")
  /\ LET l == Head(msgs).to
         dropped == l \in listeners /\ l \in deadRx
     IN \/ ~dropped /\ Continue /\ UNCHANGED poisoned
        \/ dropped /\ l = Browser /\ Break /\ UNCHANGED poisoned
        \/ dropped /\ l # Browser /\ LoopPanics("listeners")
  /\ UNCHANGED <<open, calls, inbox, socket, listeners>> /\ NotLoop

(* The tail, after the loop.                                               *)
TailShutsConnection ==
  /\ loop = "shutdown" /\ loop' = TailOrder.shutdown
  /\ socket' = "closed"
  /\ UNCHANGED <<open, calls, poisoned, inbox, msgs, listeners>> /\ NotLoop

TailClosesFlag ==
  /\ loop = "close" /\ loop' = TailOrder.close
  /\ open' = FALSE
  /\ UNCHANGED <<calls, poisoned, inbox, socket, msgs, listeners>> /\ NotLoop

TailCancelsCalls ==
  /\ loop = "cancel"
  /\ \/ /\ "calls" \notin poisoned
        /\ CancelOutstandingMethodCalls
        /\ loop' = TailOrder.cancel
        /\ UNCHANGED <<poisoned, msgs>>
     \/ "calls" \in poisoned /\ LoopPanics("calls") /\ UNCHANGED <<calls, inbox>>
  /\ UNCHANGED <<open, socket, listeners>> /\ NotLoop

TailClearsListeners ==
  /\ loop = "clear" /\ loop' = TailOrder.clear
  /\ listeners' = {} /\ msgs' = <<>>
  /\ UNCHANGED <<open, calls, poisoned, inbox, socket>> /\ NotLoop

LoopStep ==
  \/ LoopChecksShutdown \/ LoopHearsNothing \/ LoopHearsShutdown
  \/ LoopResolvesCall \/ LoopRoutesEvent
  \/ TailShutsConnection \/ TailClosesFlag \/ TailCancelsCalls
  \/ TailClearsListeners

-----------------------------------------------------------------------------
Next ==
  \/ \E c \in Callers : (\E d \in {"target", "browser"} : StartCall(c, d)) \/ CallerStep(c)
  \/ ShutdownSocket \/ ShutdownSignal
  \/ \E l \in Listeners : Listen(l) \/ ReceiverEnds(l) \/ WsForwardsEvent(l)
  \/ \E r \in owed, ok \in BOOLEAN : WsForwardsAnswer(r, ok)
  \/ WsCloses \/ WsPanics
  \/ LoopStep

Spec == Init /\ [][Next]_vars

(* Threads keep running, recv_timeout runs out when nothing comes, and a   *)
(* begun shutdown is finished.  Chrome, the wire and the application owe   *)
(* nothing: no answer, no close frame and no further call is assumed.      *)
FairSpec ==
  /\ Spec
  /\ \A c \in Callers : WF_vars(CallerStep(c))
  /\ WF_vars(LoopStep)
  /\ WF_vars(ShutdownSignal)

-----------------------------------------------------------------------------
(* Properties.                                                             *)

Waiting(f) == \/ f[2] = "browser" /\ pc[f[1]] = "wait"
              \/ f[2] = "target" /\ pc[f[1]] = "waitT"
Answered(f) == inbox[f] # <<>>

(* Once the loop has cancelled the calls, nobody will answer any more: a   *)
(* call_method that still polls its channel finds something there.  A call *)
(* that passed its `open` check before the tail must not slip through: the *)
(* loop shuts the socket before it cancels.                                *)
NoStrandedCall ==
  loop \in {"clear", "done"} => \A f \in Frames : Waiting(f) => Answered(f)

(* Until then every polled channel either holds its reply or has its       *)
(* sender in the registry: unregistering one call never takes another's.   *)
WaitersAreRegistered ==
  \A f \in Frames : Waiting(f) =>
    Answered(f) \/ [id |-> callId[f], rx |-> f] \in calls

(* A channel never gets two replies: an answer takes the sender out of the *)
(* registry, so that the tail's cancellation does not reach it again.      *)
AtMostOneReply == \A f \in Frames : Len(inbox[f]) <= 1

(* The answer in a frame's channel is to the request that this very        *)
(* activation sent, not to another thread's, to the wrapped call's or to   *)
(* one the same thread gave up earlier.                                    *)
OwnAnswer ==
  \A f \in Frames : \A i \in DOMAIN inbox[f] :
    inbox[f][i] # Closed => inbox[f][i].from = f /\ inbox[f][i].nth = made[f[1]]

(* resolve_call's remove().unwrap(), and the comment on a dropped receiver *)
(* that ends the loop: when the loop takes an answer, its call is          *)
(* registered and its caller still listens.                                *)
AnswersFindTheirCall ==
  loop = "recv" /\ msgs # <<>> /\ Head(msgs).type = "answer" =>
    \E e \in calls : e.id = Head(msgs).id /\ callId[e.rx] = e.id

(* "How long to keep the WebSocket to the browser for after not receiving  *)
(* any events from it" (browser/process.rs, idle_browser_timeout): the     *)
(* connection ends by silence, not because Chrome answers.                 *)
AnswerKeepsConnection == [][Takes("answer") /\ loop' # loop => loop' = "check"]_vars

(* No unwrap() or expect() of the transport fails, on the loop or on a     *)
(* caller's thread: whatever ends the connection, cancelled calls can      *)
(* still unregister themselves.                                            *)
NoPanic == loop # "panicked" /\ \A c \in Callers : pc[c] # "panicked"

(* Senders of calls that have returned do not pile up in the registry, as  *)
(* long as the loop has not begun its tail.                                *)
NoAbandonedEntry ==
  loop \in {"check", "recv"} => \A e \in calls : callId[e.rx] = e.id

(* Once `open` is false, no request reaches Chrome, not even from a call   *)
(* that checked it before: the socket is closed first.                     *)
NothingSentAfterClose == [][owed' \subseteq owed \/ open]_vars

(* Every call_method returns, without its own timeout and without an       *)
(* answer from Chrome: the connection's end reaches all of them            *)
(* (tests/simple.rs, actions_on_tab_wont_hang_after_browser_drops).        *)
EveryCallReturns == \A c \in Callers : pc[c] # "idle" ~> pc[c] = "idle"

(* Who listens while the loop runs is disconnected when it ends, so that   *)
(* a tab's thread, blocked in its iterator, ends too - unless the loop     *)
(* panicked, which skips its tail.                                         *)
ListenersAreReleased ==
  \A l \in Listeners :
    l \in listeners /\ ~LoopEnded ~> l \notin listeners \/ loop = "panicked"
=============================================================================
