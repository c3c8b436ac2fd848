----------------------------- MODULE TabEvents -----------------------------
(***************************************************************************)
(* The event thread of a tab and what is registered with it:               *)
(* browser/tab/mod.rs and browser/tab/dialog.rs.  The thread takes one     *)
(* event at a time, runs the event listeners and then the interceptor, the *)
(* authentication, a binding or the response handlers, holding the mutexes *)
(* of the listeners and of what it runs.  Threads of the application       *)
(* register and remove all of these, and so may the callbacks themselves,  *)
(* on the event thread.                                                    *)
(*                                                                         *)
(* One action is one mutex-guarded section, one protocol command sent, or  *)
(* one answer received with the code after it.  A callback is a value of   *)
(* Callbacks; what it does is at most one operation on the tab.  Lifecycle *)
(* events are in Navigation.                                               *)
(***************************************************************************)
EXTENDS Naturals, Sequences, SequencesExt, FiniteSets

CONSTANTS
  Clients,     \* threads of the application
  EventThread,
  Callbacks,   \* event listeners and handlers
  Names,       \* functions exposed to the page
  Requests,    \* requests of the page, each paused at most once
  None,
  OpsOf,       \* what each thread may do with the tab: a set of operations
  MaxOps,      \* bound: operations each thread starts, by thread
  MaxPageCalls,\* bound: calls of exposed functions and dialogs of the page
  CallsExpire  \* may a protocol call time out?

Threads == Clients \cup {EventThread}
Locks   == {"listeners", "interceptor", "bindings", "responses", "failures"}
Sets    == {"listeners", "responses", "failures"}
Decisions == {"continue", "fulfill", "fail"}

ASSUME EventThreadIsNoClient == EventThread \notin Clients
ASSUME NoneIsNoThread == None \notin Threads
ASSUME BoundsAreNat == MaxOps \in [Threads -> Nat] /\ MaxPageCalls \in Nat

(* Operations on the tab; "body" is a response handler's fetch_body.       *)
CallbackOps == [do : {"add", "remove"}, in : Sets, what : Callbacks]
                 \cup [do : {"removeAll"}, in : {"responses"}]
FunctionOps == [do : {"expose", "unexpose", "evaluate"}, what : Names]
FetchOps    == [do : {"fetch"}, what : {"off", "on", "auth"}]
DialogOps   == [do : {"dialog"}]
Operations  == CallbackOps \cup FunctionOps \cup FetchOps \cup DialogOps
                 \cup [do : {"intercept"}, what : Decisions]
                 \cup [do : {"authenticate", "body"}]

ASSUME OperationsExist == \A t \in Threads : OpsOf[t] \subseteq Operations

VARIABLES
  events,      \* the tab's channel of events
  at, ev, todo,\* the event thread: where it is, its event, callbacks to run
  held,        \* who holds each mutex; None: nobody
  poisoned,    \* mutexes poisoned by a panic
  registered,  \* event_listeners, response_handler, loading_failed_handler
  decision,    \* what request_interceptor decides
  login,       \* auth_handler: TRUE once authenticate has set it
  bindings,    \* page_bindings
  params,      \* received_event_params: requests it has an entry for
  op, step,    \* each thread's operation, and how far it is
  made,        \* operations each thread has started
  answer,      \* what a thread's protocol call has returned
  commands,    \* Chrome: commands it has received and not executed, in order
  network,     \* Chrome: Network domain enabled
  fetch,       \* Chrome: Fetch domain "off", "on", or "auth" as well
  request,     \* Chrome: how far each request is
  bound,       \* Chrome: functions its pages can call
  dialog,      \* Chrome: a dialog is open and blocks the page
  pageCalls,   \* Chrome: calls of exposed functions and dialogs so far
  expected,    \* history: <<handler, request>> registered when it started
  ran,         \* history: <<handler, request>> run
  unexposed    \* history: functions remove_function was called for

threadVars == <<at, ev, todo, held, poisoned>>
tabVars    == <<registered, decision, login, bindings, params>>
opVars     == <<op, step, made, answer, commands>>
chromeVars == <<network, fetch, request, bound, dialog, pageCalls>>
history    == <<expected, ran, unexposed>>
vars == <<events, threadVars, tabVars, opVars, chromeVars, history>>

Event == [type : {"paused", "auth", "response", "finished", "failed"}, of : Requests]
           \cup [type : {"binding"}, of : Names] \cup {[type |-> "dialog", of |-> None]}
ASSUME NoneIsNoEvent == None \notin Event
Idle == [do |-> "idle"]

TypeOK ==
  /\ events \in Seq(Event) /\ ev \in Event \cup {None}
  /\ at \in {"idle", "listeners", "asked", "answering", "handlers", "ending", "dead"}
  /\ todo \in SUBSET Callbacks
  /\ held \in [Locks -> Threads \cup {None}] /\ poisoned \in SUBSET Locks
  /\ registered \in [Sets -> SUBSET Callbacks]
  /\ decision \in Decisions /\ login \in BOOLEAN /\ bindings \in SUBSET Names /\ params \in SUBSET Requests
  /\ op \in [Threads -> Operations \cup {Idle}]
  /\ step \in [Threads -> {"start", "first", "second", "last"}]
  /\ answer \in [Threads -> {"none", "ok", "error"}]
  /\ network \in BOOLEAN /\ fetch \in {"off", "on", "auth"}
  /\ request \in [Requests -> {"new", "paused", "running", "auth", "tried",
                               "responded", "loaded", "failed"}]
  /\ bound \in SUBSET Names /\ dialog \in BOOLEAN /\ pageCalls \in 0..MaxPageCalls

(* Tab::new: the default interceptor continues every request.              *)
Init ==
  /\ events = <<>> /\ at = "idle" /\ ev = None /\ todo = {}
  /\ held = [m \in Locks |-> None] /\ poisoned = {}
  /\ registered = [s \in Sets |-> {}] /\ decision = "continue"
  /\ login = FALSE /\ bindings = {} /\ params = {}
  /\ op = [t \in Threads |-> Idle] /\ step = [t \in Threads |-> "start"]
  /\ made = [t \in Threads |-> 0] /\ answer = [t \in Threads |-> "none"]
  /\ commands = <<>>
  /\ network = FALSE /\ fetch = "off" /\ request = [r \in Requests |-> "new"]
  /\ bound = {} /\ dialog = FALSE /\ pageCalls = 0
  /\ expected = {} /\ ran = {} /\ unexposed = {}

-----------------------------------------------------------------------------
(* Protocol calls: Tab::call_method, and the event thread's own.           *)

Command(t, method, arg) == [by |-> t, method |-> method, arg |-> arg]
Sends(t, method, arg) ==
  /\ commands' = Append(commands, Command(t, method, arg))
  /\ answer' = [answer EXCEPT ![t] = "none"]

Waiting(t) == \E i \in DOMAIN commands : commands[i].by = t

(* The Wait in call_method runs out; Chrome may still execute the command. *)
CallExpires(t) ==
  /\ CallsExpire /\ Waiting(t)
  /\ commands' = [i \in DOMAIN commands |->
                    IF commands[i].by = t THEN [commands[i] EXCEPT !.by = None]
                    ELSE commands[i]]
  /\ answer' = [answer EXCEPT ![t] = "error"]
  /\ UNCHANGED <<events, threadVars, tabVars, op, step, made, chromeVars, history>>

-----------------------------------------------------------------------------
(* Operations of a thread t: a client, or the event thread in a callback.  *)

HeldBy(t) == {m \in Locks : held[m] = t}
Free(m)   == held[m] = None /\ m \notin poisoned
Without(t) == [m \in Locks |-> IF held[m] = t THEN None ELSE held[m]]

Quits(t) == /\ op' = [op EXCEPT ![t] = Idle]
            /\ step' = [step EXCEPT ![t] = "start"]
            /\ answer' = [answer EXCEPT ![t] = "none"]
Goes(t, to) == step' = [step EXCEPT ![t] = to] /\ UNCHANGED <<op, made>>

LockOf(o) ==
  CASE o.do \in {"add", "remove", "removeAll"} -> o.in
    [] o.do \in {"expose", "unexpose"} -> "bindings"
    [] o.do = "intercept" -> "interceptor"
    [] OTHER -> None

(* A callback that wants a mutex the event thread holds while it runs      *)
(* never returns: callbacks are assumed not to.                            *)
MayDo(t, o) ==
  /\ op[t] = Idle /\ made[t] < MaxOps[t] /\ o \in OpsOf[t]
  /\ LockOf(o) # None => LockOf(o) \notin HeldBy(t)
  /\ o.do = "body" => t = EventThread /\ at = "handlers" /\ ev.type = "finished"

StartsOp(t, o) ==
  /\ MayDo(t, o)
  /\ op' = [op EXCEPT ![t] = o] /\ step' = [step EXCEPT ![t] = "start"]
  /\ made' = [made EXCEPT ![t] = @ + 1]

(* A panic poisons the mutexes the thread holds, and ends the thread.      *)
Panics(t, m) ==
  /\ poisoned' = poisoned \cup HeldBy(t) \cup m
  /\ held' = Without(t)
  /\ at' = IF t = EventThread THEN "dead" ELSE at
  /\ Quits(t) /\ made' = [made EXCEPT ![t] = MaxOps[t]]
  /\ UNCHANGED <<events, ev, todo, tabVars, commands, chromeVars, expected, ran>>

ClientStarts(t, o) ==
  /\ t \in Clients /\ StartsOp(t, o)
  /\ UNCHANGED <<events, threadVars, tabVars, answer, commands, chromeVars, history>>

MethodOf(o) == IF o.do = "add" /\ o.in # "listeners" THEN "enable" ELSE o.do
AtLock(t) == step[t] = IF MethodOf(op[t]) = "enable" THEN "last" ELSE "start"

(* lock().unwrap() on a poisoned mutex.                                    *)
LockPanics(t) ==
  /\ op[t] # Idle /\ AtLock(t) /\ LockOf(op[t]) \in poisoned
  /\ Panics(t, {}) /\ UNCHANGED unexposed

(* Mutant: the Network domain is not enabled first.                        *)
Mut_MayInsert(t) == TRUE
MayInsert(t) == step[t] = "last"

Insert(t) ==
  /\ op[t].do = "add" /\ Free(op[t].in)
  /\ registered' = [registered EXCEPT ![op[t].in] = @ \cup {op[t].what}]
  /\ Quits(t)
  /\ UNCHANGED <<events, threadVars, decision, login, bindings, params, made, commands,
                 chromeVars, history>>

AddEventListener(t) == Insert(t) /\ op[t].in = "listeners"

(* register_response_handling and register_loading_failed_handling, once   *)
(* Network.enable has returned.                                            *)
RegisterHandling(t) == Insert(t) /\ op[t].in # "listeners" /\ MayInsert(t)

Delete(t) ==
  /\ op[t].do \in {"remove", "removeAll"} /\ Free(op[t].in)
  /\ registered' = [registered EXCEPT ![op[t].in] =
                      IF op[t].do = "removeAll" THEN {} ELSE @ \ {op[t].what}]
  /\ expected' = {e \in expected : op[t].in = "responses" => e[1] \in registered'["responses"]}
  /\ Quits(t)
  /\ UNCHANGED <<events, threadVars, decision, login, bindings, params, made, commands,
                 chromeVars, ran, unexposed>>

RemoveEventListener(t) == Delete(t) /\ op[t].in = "listeners"
DeregisterHandling(t)  == Delete(t) /\ op[t].in # "listeners"

EnableRequestInterception(t) ==
  /\ op[t].do = "intercept" /\ Free("interceptor")
  /\ decision' = op[t].what
  /\ Quits(t)
  /\ UNCHANGED <<events, threadVars, registered, login, bindings, params, made, commands,
                 chromeVars, history>>

Authenticate(t) ==
  /\ op[t].do = "authenticate"
  /\ login' = TRUE
  /\ Quits(t)
  /\ UNCHANGED <<events, threadVars, registered, decision, bindings, params, made,
                 commands, chromeVars, history>>

(* The name is unwrapped: an unknown one panics with the mutex held.       *)
RemoveFunction(t) ==
  /\ op[t].do = "unexpose" /\ Free("bindings")
  /\ unexposed' = unexposed \cup {op[t].what}
  /\ \/ /\ op[t].what \in bindings
        /\ bindings' = bindings \ {op[t].what}
        /\ Quits(t)
        /\ UNCHANGED <<events, threadVars, registered, decision, login, params, made,
                       commands, chromeVars, expected, ran>>
     \/ op[t].what \notin bindings /\ Panics(t, {"bindings"})

(* expose_function holds the mutex during its two calls; an error ends it  *)
(* and leaves the function in the map.                                     *)
Mut_ExposeInserts(t, s) ==
  bindings' = IF s = "second" THEN bindings \cup {op[t].what} ELSE bindings
ExposeInserts(t, s) ==
  bindings' = IF s = "start" THEN bindings \cup {op[t].what} ELSE bindings

ExposeFunction(t) ==
  /\ op[t].do = "expose"
  /\ \/ /\ step[t] = "start" /\ Free("bindings")
        /\ held' = [held EXCEPT !["bindings"] = t]
        /\ Sends(t, "addBinding", op[t].what) /\ Goes(t, "first")
     \/ /\ step[t] = "first" /\ answer[t] = "ok"
        /\ Sends(t, "addScript", op[t].what) /\ Goes(t, "second")
        /\ UNCHANGED held
     \/ /\ \/ step[t] = "second" /\ answer[t] = "ok"
           \/ answer[t] = "error"
        /\ Quits(t) /\ held' = [held EXCEPT !["bindings"] = None]
        /\ UNCHANGED <<made, commands>>
  /\ IF step[t] # "start" /\ answer[t] = "error" THEN UNCHANGED bindings
     ELSE ExposeInserts(t, step[t])
  /\ UNCHANGED <<events, at, ev, todo, poisoned, registered, decision, login, params,
                 chromeVars, history>>

(* Operations of one protocol call: enable_fetch and disable_fetch,        *)
(* evaluate, Dialog::accept and dismiss, a handler's fetch_body; and the   *)
(* Network.enable of the register operations.                              *)
Calls(t) ==
  /\ MethodOf(op[t]) \in {"enable", "fetch", "evaluate", "dialog", "body"}
  /\ \/ /\ step[t] = "start"
        /\ Sends(t, MethodOf(op[t]), IF op[t].do \in {"fetch", "evaluate"} THEN op[t].what ELSE None)
        /\ Goes(t, "first")
     \/ /\ step[t] = "first" /\ answer[t] # "none"
        /\ IF op[t].do = "add" /\ answer[t] = "ok"
           THEN Goes(t, "last") /\ UNCHANGED answer
           ELSE Quits(t) /\ UNCHANGED made
        /\ UNCHANGED commands
  /\ UNCHANGED <<events, threadVars, tabVars, chromeVars, history>>

Operation(t) ==
  \/ LockPanics(t) \/ AddEventListener(t) \/ RegisterHandling(t)
  \/ RemoveEventListener(t) \/ DeregisterHandling(t)
  \/ EnableRequestInterception(t) \/ Authenticate(t) \/ RemoveFunction(t) \/ ExposeFunction(t) \/ Calls(t)

-----------------------------------------------------------------------------
(* The event thread: start_event_handler_thread.                           *)

(* The code of a callback: nothing that matters here, or an operation.     *)
Callback ==
  /\ \/ UNCHANGED <<op, step, made>>
     \/ \E o \in OpsOf[EventThread] : StartsOp(EventThread, o)
  /\ UNCHANGED <<answer, commands>>

InNoCallback == op[EventThread] = Idle

(* The end of the loop's body drops the guards.                            *)
EndsEvent == at' = "idle" /\ ev' = None /\ held' = Without(EventThread)

Receive ==
  /\ at = "idle" /\ events # <<>> /\ Free("listeners")
  /\ events' = Tail(events) /\ ev' = Head(events)
  /\ at' = "listeners" /\ todo' = registered["listeners"]
  /\ held' = [held EXCEPT !["listeners"] = EventThread]
  /\ UNCHANGED <<poisoned, tabVars, opVars, chromeVars, history>>

RunListener(l) ==
  /\ at = "listeners" /\ InNoCallback /\ l \in todo
  /\ todo' = todo \ {l} /\ Callback
  /\ UNCHANGED <<events, at, ev, held, poisoned, tabVars, chromeVars, history>>

Handles(type) == at = "listeners" /\ todo = {} /\ InNoCallback /\ ev.type = type

AskInterceptor ==
  /\ Handles("paused") /\ Free("interceptor")
  /\ held' = [held EXCEPT !["interceptor"] = EventThread]
  /\ at' = "asked" /\ Callback
  /\ UNCHANGED <<events, ev, todo, poisoned, tabVars, chromeVars, history>>

(* Mutant: Continue(None) is taken for nothing to do.                      *)
Mut_Answers(d) ==
  IF d = "continue" THEN EndsEvent /\ UNCHANGED <<answer, commands>>
  ELSE Sends(EventThread, d, ev.of) /\ at' = "answering" /\ UNCHANGED <<ev, held>>
Answers(d) ==
  Sends(EventThread, d, ev.of) /\ at' = "answering" /\ UNCHANGED <<ev, held>>

(* ContinueRequest, FulfillRequest or FailRequest.                         *)
Decide ==
  /\ at = "asked" /\ InNoCallback
  /\ Answers(decision)
  /\ UNCHANGED <<events, todo, poisoned, tabVars, op, step, made, chromeVars, history>>

ContinueWithAuth ==
  /\ Handles("auth")
  /\ Sends(EventThread, IF login THEN "login" ELSE "default", ev.of)
  /\ at' = "answering"
  /\ UNCHANGED <<events, ev, todo, held, poisoned, tabVars, op, step, made, chromeVars, history>>

(* An error of the call is only logged.                                    *)
Answered ==
  /\ at = "answering" /\ answer[EventThread] # "none"
  /\ EndsEvent /\ answer' = [answer EXCEPT ![EventThread] = "none"]
  /\ UNCHANGED <<events, todo, poisoned, tabVars, op, step, made, commands, chromeVars, history>>

(* The map is cloned, so that the function runs without the mutex; a name  *)
(* that is not in it any more panics, and so does a poisoned mutex.        *)
(* Mutant: the function is called under the mutex.                         *)
Mut_HeldInBinding == [held EXCEPT !["bindings"] = EventThread]
HeldInBinding == held

CallBinding ==
  /\ Handles("binding")
  /\ \/ /\ Free("bindings") /\ ev.of \in bindings
        /\ held' = HeldInBinding
        /\ at' = "ending" /\ Callback
        /\ UNCHANGED <<events, ev, todo, poisoned, tabVars, chromeVars, history>>
     \/ /\ \/ Free("bindings") /\ ev.of \notin bindings
           \/ "bindings" \in poisoned
        /\ Panics(EventThread, {}) /\ UNCHANGED unexposed

BindingReturns ==
  /\ at = "ending" /\ InNoCallback
  /\ EndsEvent
  /\ UNCHANGED <<events, todo, poisoned, tabVars, opVars, chromeVars, history>>

(* Mutant: the parameters are filed under the event.                       *)
Mut_Key == ev
Key == ev.of
ResponseReceived ==
  /\ Handles("response")
  /\ params' = params \cup {Key}
  /\ EndsEvent
  /\ UNCHANGED <<events, todo, poisoned, registered, decision, login, bindings, opVars,
                 chromeVars, history>>

HandlersOf(type) == IF type = "finished" THEN "responses" ELSE "failures"

(* Mutant: the handlers are cloned, and the mutex released.                *)
Mut_HeldInHandlers(s) == held
HeldInHandlers(s) == [held EXCEPT ![s] = EventThread]

(* NetworkLoadingFinished and NetworkLoadingFailed.                        *)
LoadingEnds ==
  /\ \E type \in {"finished", "failed"} :
       LET s == HandlersOf(type) IN
       /\ Handles(type) /\ Free(s)
       /\ held' = HeldInHandlers(s) /\ todo' = registered[s]
  /\ at' = "handlers"
  /\ UNCHANGED <<events, ev, poisoned, tabVars, opVars, chromeVars, history>>

(* A handler is run with the parameters of the response, if there were any.*)
RunHandler(h) ==
  /\ at = "handlers" /\ InNoCallback /\ h \in todo
  /\ todo' = todo \ {h}
  /\ IF ev.of \in params THEN ran' = ran \cup {<<h, ev.of>>} /\ Callback
     ELSE UNCHANGED <<ran, opVars>>
  /\ UNCHANGED <<events, at, ev, held, poisoned, tabVars, chromeVars, expected, unexposed>>

HandlersReturn ==
  /\ at = "handlers" /\ todo = {} /\ InNoCallback
  /\ EndsEvent
  /\ UNCHANGED <<events, todo, poisoned, tabVars, opVars, chromeVars, history>>

(* Any other event, a dialog's among them, is for the listeners only.      *)
OtherEvent ==
  /\ Handles("dialog")
  /\ EndsEvent
  /\ UNCHANGED <<events, todo, poisoned, tabVars, opVars, chromeVars, history>>

EventThreadStep ==
  \/ Receive
  \/ \E l \in Callbacks : RunListener(l) \/ RunHandler(l)
  \/ AskInterceptor \/ Decide \/ ContinueWithAuth \/ Answered
  \/ CallBinding \/ BindingReturns
  \/ ResponseReceived \/ LoadingEnds \/ HandlersReturn \/ OtherEvent

-----------------------------------------------------------------------------
(* Chrome.                                                                 *)

Says(type, x) == events' = Append(events, [type |-> type, of |-> x])
SaysIf(enabled, type, x) == IF enabled THEN Says(type, x) ELSE UNCHANGED events

Becomes(r, s) == request' = [request EXCEPT ![r] = s]

StartRequest(r) ==
  /\ request[r] = "new"
  /\ expected' = expected \cup (registered["responses"] \X {r})
  /\ Becomes(r, IF fetch = "off" THEN "running" ELSE "paused")
  /\ SaysIf(fetch # "off", "paused", r)
  /\ UNCHANGED <<threadVars, tabVars, opVars, network, fetch, bound, dialog, pageCalls,
                 ran, unexposed>>

(* The server asks for credentials; with Fetch enabled for it, the client  *)
(* is asked.                                                               *)
Challenge(r) ==
  /\ request[r] = "running" /\ fetch = "auth"
  /\ Becomes(r, "auth") /\ Says("auth", r)
  /\ UNCHANGED <<threadVars, tabVars, opVars, network, fetch, bound, dialog, pageCalls, history>>

Respond(r) ==
  /\ request[r] \in {"running", "tried"}
  /\ Becomes(r, "responded") /\ SaysIf(network, "response", r)
  /\ UNCHANGED <<threadVars, tabVars, opVars, network, fetch, bound, dialog, pageCalls, history>>

(* Loading may fail with or without a response before.                     *)
Finish(r) ==
  /\ \/ /\ request[r] = "responded"
        /\ Becomes(r, "loaded") /\ SaysIf(network, "finished", r)
     \/ /\ request[r] \in {"running", "tried", "responded"}
        /\ Becomes(r, "failed") /\ SaysIf(network, "failed", r)
  /\ UNCHANGED <<threadVars, tabVars, opVars, network, fetch, bound, dialog, pageCalls, history>>

PageCalls(n) ==
  /\ n \in bound /\ ~dialog /\ pageCalls < MaxPageCalls
  /\ pageCalls' = pageCalls + 1 /\ Says("binding", n)
  /\ UNCHANGED <<threadVars, tabVars, opVars, network, fetch, request, bound, dialog, history>>

OpenDialog ==
  /\ ~dialog /\ pageCalls < MaxPageCalls
  /\ dialog' = TRUE /\ pageCalls' = pageCalls + 1 /\ Says("dialog", None)
  /\ UNCHANGED <<threadVars, tabVars, opVars, network, fetch, request, bound, history>>

(* A dialog blocks what runs in the page.                                  *)
Blocked(c) == dialog /\ c.method \in {"evaluate", "addBinding", "addScript"}

(* What the command does; its second parameter is the answer.              *)
Effect(c, a) ==
  \/ /\ c.method = "enable" /\ a = "ok" /\ network' = TRUE
     /\ UNCHANGED <<events, fetch, request, bound, dialog>>
  \/ /\ c.method = "fetch" /\ a = "ok" /\ fetch' = c.arg
     /\ request' = IF c.arg # "off" THEN request
                   ELSE [r \in Requests |-> IF request[r] \in {"paused", "auth"}
                                            THEN "running" ELSE request[r]]
     /\ UNCHANGED <<events, network, bound, dialog>>
  \/ /\ c.method \in {"continue", "fulfill"} /\ request[c.arg] = "paused" /\ a = "ok"
     /\ Becomes(c.arg, "running") /\ UNCHANGED <<events, network, fetch, bound, dialog>>
  \/ /\ c.method = "fail" /\ request[c.arg] = "paused" /\ a = "ok"
     /\ Becomes(c.arg, "failed") /\ SaysIf(network, "failed", c.arg)
     /\ UNCHANGED <<network, fetch, bound, dialog>>
  \/ /\ c.method \in {"login", "default"} /\ request[c.arg] = "auth" /\ a = "ok"
     /\ Becomes(c.arg, "tried") /\ UNCHANGED <<events, network, fetch, bound, dialog>>
  \/ /\ \/ c.method \in Decisions /\ request[c.arg] # "paused"
        \/ c.method \in {"login", "default"} /\ request[c.arg] # "auth"
     /\ a = "error"
     /\ UNCHANGED <<events, network, fetch, request, bound, dialog>>
  \/ /\ c.method = "addBinding" /\ a = "ok" /\ bound' = bound \cup {c.arg}
     /\ UNCHANGED <<events, network, fetch, request, dialog>>
  \/ /\ c.method = "evaluate" /\ a = "ok" /\ SaysIf(c.arg \in bound, "binding", c.arg)
     /\ UNCHANGED <<network, fetch, request, bound, dialog>>
  \/ /\ c.method = "dialog" /\ a = (IF dialog THEN "ok" ELSE "error") /\ dialog' = FALSE
     /\ UNCHANGED <<events, network, fetch, request, bound>>
  \/ /\ c.method \in {"addScript", "body"} /\ a = "ok"
     /\ UNCHANGED <<events, network, fetch, request, bound, dialog>>

(* Chrome executes its commands in order, past those a dialog blocks.      *)
Execute ==
  \E i \in DOMAIN commands, a \in {"ok", "error"} :
    LET c == commands[i] IN
    /\ ~Blocked(c) /\ \A j \in 1..(i - 1) : Blocked(commands[j])
    /\ Effect(c, a)
    /\ commands' = RemoveAt(commands, i)
    /\ answer' = IF c.by = None THEN answer ELSE [answer EXCEPT ![c.by] = a]
    /\ UNCHANGED <<threadVars, tabVars, op, step, made, pageCalls, history>>

-----------------------------------------------------------------------------
Next ==
  \/ \E t \in Threads : Operation(t) \/ CallExpires(t)
  \/ \E t \in Clients, o \in Operations : ClientStarts(t, o)
  \/ EventThreadStep
  \/ \E r \in Requests : StartRequest(r) \/ Challenge(r) \/ Respond(r) \/ Finish(r)
  \/ \E n \in Names : PageCalls(n)
  \/ OpenDialog \/ Execute

Spec == Init /\ [][Next]_vars

(* Threads and Chrome go on, and a call's Wait runs out; what the page and *)
(* the application start is up to them.                                    *)
Fairness ==
  /\ \A t \in Threads : WF_vars(Operation(t) \/ CallExpires(t))
  /\ WF_vars(EventThreadStep)
  /\ WF_vars(Execute)
FairSpec == Spec /\ Fairness

-----------------------------------------------------------------------------
(* Properties.                                                             *)

(* A listener or handler is not called once the operation that removes it  *)
(* has returned: what is still to be run is registered, whatever other     *)
(* threads remove while the event thread is at it.                         *)
RemovedStaysSilent ==
  /\ at = "listeners" => todo \subseteq registered["listeners"]
  /\ at = "handlers" => todo \subseteq registered[HandlersOf(ev.type)]

(* Exposing functions, failing and timing out on the way as it may, never  *)
(* lets the page end the event thread: only remove_function does that.     *)
ExposedFunctionsAreSafe == at = "dead" => unexposed # {}

(* A response handler registered when a request started, and not removed   *)
(* since, has been run for it once the loading is over and its events are  *)
(* handled; registering enables the Network domain first.                  *)
Handled(r) == at # "dead" /\ (ev = None \/ ev.of # r)
                /\ \A i \in DOMAIN events : events[i].of # r
EveryHandlerSeesTheResponse ==
  \A e \in expected : request[e[2]] = "loaded" /\ Handled(e[2]) => e \in ran

(* A paused request is released, unless the event thread has died: also    *)
(* when the call that does it times out, or the interceptor is replaced.   *)
PausedIsReleased ==
  \A r \in Requests :
    request[r] \in {"paused", "auth"} ~> request[r] \notin {"paused", "auth"} \/ at = "dead"

(* Every operation on the tab returns, from a thread or from a callback    *)
(* that does not want the mutexes held for it.                             *)
OperationsReturn == \A t \in Threads : op[t] # Idle ~> op[t] = Idle
=============================================================================
