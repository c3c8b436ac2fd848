-------------------------- MODULE TabEventsProofs --------------------------
(***************************************************************************)
(* Theorems about TabEvents: for any number of threads, callbacks, exposed *)
(* functions and requests, and whatever operations the threads have.       *)
(***************************************************************************)
EXTENDS TabEvents, SequenceTheorems, TLAPS

-----------------------------------------------------------------------------
(* Types, of the commands too, and what is known by the event thread's     *)
(* place.                                                                  *)
OneCall == {"enable", "dialog", "body"}
ForRequest == Decisions \cup {"login", "default"}
ForName == {"evaluate", "addBinding", "addScript"}
CommandSet ==
  [by : Threads \cup {None}, method : OneCall, arg : {None}]
    \cup [by : Threads \cup {None}, method : {"fetch"}, arg : {"off", "on", "auth"}]
    \cup [by : Threads \cup {None}, method : ForRequest, arg : Requests]
    \cup [by : Threads \cup {None}, method : ForName, arg : Names]

Types == TypeOK /\ commands \in Seq(CommandSet)

Places ==
  /\ at \notin {"idle", "dead"} => ev \in Event
  /\ at = "asked" => ev.type = "paused"

(* The fields an operation has.                                            *)
LEMMA OperationFields ==
  ASSUME NEW o \in Operations \cup {Idle}
  PROVE  /\ o.do \in {"add", "remove"} => o.in \in Sets /\ o.what \in Callbacks
         /\ o.do = "removeAll" => o.in = "responses"
         /\ o.do \in {"expose", "unexpose", "evaluate"} => o.what \in Names
         /\ o.do = "fetch" => o.what \in {"off", "on", "auth"}
         /\ o.do = "intercept" => o.what \in Decisions
BY DEF Operations, CallbackOps, FunctionOps, FetchOps, DialogOps, Idle

LEMMA OperationStarts ==
  ASSUME Types, NEW t \in Threads, NEW o \in OpsOf[t], StartsOp(t, o)
  PROVE  /\ op' \in [Threads -> Operations \cup {Idle}]
         /\ step' \in [Threads -> {"start", "first", "second", "last"}]
BY OperationsExist DEF Types, TypeOK, StartsOp

LEMMA OperationQuits ==
  ASSUME Types, NEW t \in Threads, Quits(t)
  PROVE  /\ op' \in [Threads -> Operations \cup {Idle}]
         /\ step' \in [Threads -> {"start", "first", "second", "last"}]
         /\ answer' \in [Threads -> {"none", "ok", "error"}]
BY DEF Types, TypeOK, Quits

LEMMA PanicKeepsTypes ==
  ASSUME Types, NEW t \in Threads, NEW m \in SUBSET Locks, Panics(t, m)
  PROVE  Types'
<1>1. poisoned' \in SUBSET Locks /\ held' \in [Locks -> Threads \cup {None}]
  BY DEF Types, TypeOK, Panics, HeldBy, Without
<1> QED
  BY <1>1 DEF Types, TypeOK, Panics, Quits, Idle, tabVars, chromeVars

LEMMA SendKeepsTypes ==
  ASSUME Types, NEW t \in Threads, NEW method, NEW arg, Sends(t, method, arg),
         \/ method \in OneCall /\ arg = None
         \/ method = "fetch" /\ arg \in {"off", "on", "auth"}
         \/ method \in ForRequest /\ arg \in Requests
         \/ method \in ForName /\ arg \in Names
  PROVE  /\ commands' \in Seq(CommandSet)
         /\ answer' \in [Threads -> {"none", "ok", "error"}]
<1>1. Command(t, method, arg) \in CommandSet
  BY DEF Command, CommandSet
<1> QED
  BY <1>1 DEF Sends, Types, TypeOK

LEMMA ExpiryKeepsTypes ==
  ASSUME Types, NEW t \in Threads, CallExpires(t)
  PROVE  Types'
<1>1. ASSUME NEW i \in DOMAIN commands
      PROVE  /\ commands[i] \in CommandSet
             /\ [commands[i] EXCEPT !.by = None] \in CommandSet
  <2>1. commands[i] \in CommandSet
    BY DEF Types
  <2>2. CASE commands[i] \in [by : Threads \cup {None}, method : OneCall, arg : {None}]
    BY <2>2 DEF CommandSet
  <2>3. CASE commands[i] \in [by : Threads \cup {None}, method : {"fetch"},
                              arg : {"off", "on", "auth"}]
    BY <2>3 DEF CommandSet
  <2>4. CASE commands[i] \in [by : Threads \cup {None}, method : ForRequest, arg : Requests]
    BY <2>4 DEF CommandSet
  <2>5. CASE commands[i] \in [by : Threads \cup {None}, method : ForName, arg : Names]
    BY <2>5 DEF CommandSet
  <2> QED
    BY <2>1, <2>2, <2>3, <2>4, <2>5 DEF CommandSet
<1>2. DOMAIN commands = 1..Len(commands) /\ Len(commands) \in Nat
  BY DEF Types
<1>3. commands' \in Seq(CommandSet)
  BY <1>1, <1>2 DEF CallExpires
<1> QED
  BY <1>3 DEF Types, TypeOK, CallExpires, threadVars, tabVars, chromeVars

LEMMA OperationKeepsTypes ==
  ASSUME Types, NEW t \in Threads, Operation(t)
  PROVE  Types'
<1> DEFINE o == op[t]
<1>0. /\ o \in Operations \cup {Idle} /\ Idle \in Operations \cup {Idle}
      /\ o.do \in {"add", "remove"} => o.in \in Sets /\ o.what \in Callbacks
      /\ o.do = "removeAll" => o.in = "responses"
      /\ o.do \in {"expose", "unexpose", "evaluate"} => o.what \in Names
      /\ o.do = "fetch" => o.what \in {"off", "on", "auth"}
      /\ o.do = "intercept" => o.what \in Decisions
  <2>1. o \in Operations \cup {Idle}
    BY DEF Types, TypeOK
  <2> HIDE DEF o
  <2> QED
    BY <2>1, OperationFields
<1>1. CASE LockPanics(t)
  BY <1>1, PanicKeepsTypes DEF LockPanics
<1>2. CASE AddEventListener(t) \/ RegisterHandling(t)
  <2>1. registered' \in [Sets -> SUBSET Callbacks]
    BY <1>0, <1>2 DEF AddEventListener, RegisterHandling, Insert, Types, TypeOK
  <2>2. /\ Quits(t) /\ UNCHANGED <<threadVars, chromeVars, commands, events>>
        /\ UNCHANGED <<decision, login, bindings, params>>
    BY <1>2 DEF AddEventListener, RegisterHandling, Insert
  <2> QED
    BY <2>1, <2>2, OperationQuits DEF Types, TypeOK, threadVars, chromeVars
<1>3. CASE RemoveEventListener(t) \/ DeregisterHandling(t)
  <2>1. registered' \in [Sets -> SUBSET Callbacks]
    BY <1>0, <1>3 DEF RemoveEventListener, DeregisterHandling, Delete, Types, TypeOK
  <2>2. /\ Quits(t) /\ UNCHANGED <<threadVars, chromeVars, commands, events>>
        /\ UNCHANGED <<decision, login, bindings, params>>
    BY <1>3 DEF RemoveEventListener, DeregisterHandling, Delete
  <2> QED
    BY <2>1, <2>2, OperationQuits DEF Types, TypeOK, threadVars, chromeVars
<1>4. CASE EnableRequestInterception(t)
  BY <1>0, <1>4 DEF EnableRequestInterception, Quits, Types, TypeOK, threadVars, chromeVars
<1>5. CASE Authenticate(t)
  BY <1>0, <1>5 DEF Authenticate, Quits, Types, TypeOK, threadVars, chromeVars
<1>6. CASE RemoveFunction(t)
  <2>1. CASE Panics(t, {"bindings"})
    BY <2>1, PanicKeepsTypes DEF Locks
  <2>2. CASE ~Panics(t, {"bindings"})
    <3>1. /\ Quits(t) /\ UNCHANGED <<threadVars, chromeVars, commands, events>>
          /\ UNCHANGED <<registered, decision, login, params>>
          /\ bindings' = bindings \ {o.what}
      BY <1>6, <2>2 DEF RemoveFunction
    <3> QED
      BY <3>1, OperationQuits DEF Types, TypeOK, threadVars, chromeVars
  <2> QED
    BY <2>1, <2>2
<1>7. CASE ExposeFunction(t)
  <2>1. /\ held' \in [Locks -> Threads \cup {None}]
        /\ bindings' \in SUBSET Names
    BY <1>0, <1>7 DEF ExposeFunction, ExposeInserts, Types, TypeOK
  <2>2. /\ commands' \in Seq(CommandSet)
        /\ answer' \in [Threads -> {"none", "ok", "error"}]
    <3>1. CASE Sends(t, "addBinding", o.what) \/ Sends(t, "addScript", o.what)
      BY <1>0, <1>7, <3>1, SendKeepsTypes DEF ForName, ExposeFunction
    <3>2. CASE Quits(t) /\ UNCHANGED commands
      BY <3>2 DEF Quits, Types, TypeOK
    <3> QED
      BY <1>7, <3>1, <3>2 DEF ExposeFunction
  <2>3. /\ op' \in [Threads -> Operations \cup {Idle}]
        /\ step' \in [Threads -> {"start", "first", "second", "last"}]
    BY <1>0, <1>7 DEF ExposeFunction, Quits, Goes, Types, TypeOK
  <2> QED
    BY <1>7, <2>1, <2>2, <2>3 DEF ExposeFunction, Types, TypeOK, chromeVars
<1>8. CASE Calls(t)
  <2>1. /\ commands' \in Seq(CommandSet)
        /\ answer' \in [Threads -> {"none", "ok", "error"}]
    <3>1. CASE Sends(t, MethodOf(o), IF o.do \in {"fetch", "evaluate"} THEN o.what ELSE None)
      <4>1. CASE o.do = "fetch"
        BY <1>0, <3>1, <4>1, SendKeepsTypes DEF MethodOf
      <4>2. CASE o.do = "evaluate"
        BY <1>0, <3>1, <4>2, SendKeepsTypes DEF MethodOf, ForName
      <4>3. CASE o.do \notin {"fetch", "evaluate"}
        BY <1>8, <3>1, <4>3, SendKeepsTypes DEF Calls, MethodOf, OneCall
      <4> QED
        BY <4>1, <4>2, <4>3
    <3>2. CASE (Quits(t) \/ UNCHANGED answer) /\ UNCHANGED commands
      BY <3>2 DEF Quits, Types, TypeOK
    <3> QED
      BY <1>8, <3>1, <3>2 DEF Calls
  <2>2. /\ op' \in [Threads -> Operations \cup {Idle}]
        /\ step' \in [Threads -> {"start", "first", "second", "last"}]
    BY <1>0, <1>8 DEF Calls, Quits, Goes, Types, TypeOK
  <2> QED
    BY <1>8, <2>1, <2>2 DEF Calls, Types, TypeOK, threadVars, tabVars, chromeVars
<1> QED
  BY <1>1, <1>2, <1>3, <1>4, <1>5, <1>6, <1>7, <1>8 DEF Operation

LEMMA ClientKeepsTypes ==
  ASSUME Types, NEW t \in Clients, NEW o \in Operations, ClientStarts(t, o)
  PROVE  Types'
<1>1. t \in Threads /\ o \in OpsOf[t]
  BY DEF ClientStarts, StartsOp, MayDo, Threads
<1> QED
  BY <1>1, OperationStarts DEF ClientStarts, Types, TypeOK, threadVars, tabVars, chromeVars

LEMMA CallbackKeepsTypes ==
  ASSUME Types, Callback
  PROVE  /\ op' \in [Threads -> Operations \cup {Idle}]
         /\ step' \in [Threads -> {"start", "first", "second", "last"}]
         /\ answer' = answer /\ commands' = commands
<1>1. CASE \E o \in OpsOf[EventThread] : StartsOp(EventThread, o)
  BY <1>1, OperationStarts DEF Callback, Threads
<1>2. CASE UNCHANGED <<op, step, made>>
  BY <1>2 DEF Types, TypeOK, Callback
<1> QED
  BY <1>1, <1>2 DEF Callback

(* The end of the loop's body, with its guards dropped.                    *)
LEMMA EventEndKeepsTypes ==
  ASSUME Types, EndsEvent
  PROVE  held' \in [Locks -> Threads \cup {None}] /\ at' = "idle" /\ ev' = None
BY DEF EndsEvent, Without, Types, TypeOK

LEMMA EventThreadKeepsTypes ==
  ASSUME Types, Places, EventThreadStep
  PROVE  Types' /\ Places'
<1>0. EventThread \in Threads
  BY DEF Threads
<1>1. CASE Receive
  <2>1. Head(events) \in Event /\ Tail(events) \in Seq(Event)
    BY <1>1 DEF Receive, Types, TypeOK
  <2>2. held' \in [Locks -> Threads \cup {None}] /\ todo' \in SUBSET Callbacks
    BY <1>0, <1>1 DEF Receive, Types, TypeOK, Sets
  <2> QED
    BY <1>1, <2>1, <2>2 DEF Receive, Types, TypeOK, Places, tabVars, opVars, chromeVars
<1>2. ASSUME NEW l \in Callbacks, RunListener(l) PROVE Types' /\ Places'
  BY <1>2, CallbackKeepsTypes DEF RunListener, Types, TypeOK, Places, tabVars, chromeVars
<1>3. ASSUME NEW h \in Callbacks, RunHandler(h) PROVE Types' /\ Places'
  <2>1. /\ op' \in [Threads -> Operations \cup {Idle}]
        /\ step' \in [Threads -> {"start", "first", "second", "last"}]
        /\ answer' = answer /\ commands' = commands
    BY <1>3, CallbackKeepsTypes DEF RunHandler, opVars, Types, TypeOK
  <2> QED
    BY <1>3, <2>1 DEF RunHandler, Types, TypeOK, Places, tabVars, chromeVars
<1>4. CASE AskInterceptor
  <2>1. held' \in [Locks -> Threads \cup {None}]
    BY <1>0, <1>4 DEF AskInterceptor, Types, TypeOK
  <2> QED
    BY <1>4, <2>1, CallbackKeepsTypes
    DEF AskInterceptor, Handles, Types, TypeOK, Places, tabVars, chromeVars
<1>5. CASE Decide
  <2>1. ev \in Event /\ ev.of \in Requests
    BY <1>5 DEF Decide, Places, Event
  <2>2. /\ commands' \in Seq(CommandSet)
        /\ answer' \in [Threads -> {"none", "ok", "error"}]
    BY <1>0, <1>5, <2>1, SendKeepsTypes DEF Decide, Answers, ForRequest, Types, TypeOK
  <2> QED
    BY <1>5, <2>1, <2>2 DEF Decide, Answers, Types, TypeOK, Places, tabVars, chromeVars
<1>6. CASE ContinueWithAuth
  <2>1. ev \in Event /\ ev.of \in Requests
    BY <1>6 DEF ContinueWithAuth, Handles, Places, Event
  <2>2. /\ commands' \in Seq(CommandSet)
        /\ answer' \in [Threads -> {"none", "ok", "error"}]
    <3>1. \E m \in ForRequest : Sends(EventThread, m, ev.of)
      BY <1>6 DEF ContinueWithAuth, ForRequest
    <3> QED
      BY <1>0, <2>1, <3>1, SendKeepsTypes
  <2> QED
    BY <1>6, <2>1, <2>2 DEF ContinueWithAuth, Types, TypeOK, Places, tabVars, chromeVars
<1>7. CASE Answered
  BY <1>7, EventEndKeepsTypes DEF Answered, Types, TypeOK, Places, tabVars, chromeVars
<1>8. CASE CallBinding
  <2>1. CASE Panics(EventThread, {})
    <3>1. Types'
      <4>1. {} \in SUBSET Locks
        OBVIOUS
      <4> QED
        BY <1>0, <2>1, <4>1, PanicKeepsTypes
    <3>2. at' = "dead"
      BY <2>1 DEF Panics
    <3> QED
      BY <3>1, <3>2 DEF Places
  <2>2. CASE ~Panics(EventThread, {})
    BY <1>8, <2>2, CallbackKeepsTypes
    DEF CallBinding, HeldInBinding, Handles, Types, TypeOK, Places, tabVars, chromeVars
  <2> QED
    BY <2>1, <2>2
<1>9. CASE BindingReturns
  BY <1>9, EventEndKeepsTypes DEF BindingReturns, Types, TypeOK, Places, tabVars, opVars, chromeVars
<1>10. CASE ResponseReceived
  <2>1. Key \in Requests
    BY <1>10 DEF ResponseReceived, Handles, Places, Event, Key
  <2> QED
    BY <1>10, <2>1, EventEndKeepsTypes DEF ResponseReceived, Types, TypeOK, Places, opVars, chromeVars
<1>11. CASE LoadingEnds
  <2>1. held' \in [Locks -> Threads \cup {None}] /\ todo' \in SUBSET Callbacks
    BY <1>0, <1>11 DEF LoadingEnds, HandlersOf, HeldInHandlers, Types, TypeOK, Sets
  <2> QED
    BY <1>11, <2>1 DEF LoadingEnds, Handles, Types, TypeOK, Places, tabVars, opVars, chromeVars
<1>12. CASE HandlersReturn
  BY <1>12, EventEndKeepsTypes DEF HandlersReturn, Types, TypeOK, Places, tabVars, opVars, chromeVars
<1>13. CASE OtherEvent
  BY <1>13, EventEndKeepsTypes DEF OtherEvent, Types, TypeOK, Places, tabVars, opVars, chromeVars
<1> QED
  BY <1>1, <1>2, <1>3, <1>4, <1>5, <1>6, <1>7, <1>8, <1>9, <1>10, <1>11, <1>12, <1>13
  DEF EventThreadStep

LEMMA ChromeSays ==
  ASSUME Types, NEW type, NEW x, [type |-> type, of |-> x] \in Event,
         Says(type, x) \/ UNCHANGED events
  PROVE  events' \in Seq(Event)
<1> DEFINE e == [type |-> type, of |-> x]
<1>1. events' = Append(events, e) \/ events' = events
  BY DEF Says
<1>2. e \in Event /\ events \in Seq(Event)
  BY DEF Types, TypeOK
<1> HIDE DEF e
<1> QED
  BY <1>1, <1>2

(* What an executed command does, by what it may be.                       *)
LEMMA EffectKeepsTypes ==
  ASSUME Types, NEW c \in CommandSet, NEW a, Effect(c, a)
  PROVE  /\ events' \in Seq(Event)
         /\ network' \in BOOLEAN /\ fetch' \in {"off", "on", "auth"}
         /\ request' \in [Requests -> {"new", "paused", "running", "auth", "tried",
                                      "responded", "loaded", "failed"}]
         /\ bound' \in SUBSET Names /\ dialog' \in BOOLEAN
<1>1. /\ c.method = "fetch" => c.arg \in {"off", "on", "auth"}
      /\ c.method \in {"addBinding", "evaluate"} => c.arg \in Names
      /\ c.method = "fail" => c.arg \in Requests
  BY DEF CommandSet, OneCall, ForRequest, ForName, Decisions
<1>2. /\ c.arg \in Requests => [type |-> "failed", of |-> c.arg] \in Event
      /\ c.arg \in Names => [type |-> "binding", of |-> c.arg] \in Event
  BY DEF Event
<1>3. events' \in Seq(Event)
  <2>1. CASE c.method = "fail"
    BY <1>1, <1>2, <2>1, ChromeSays DEF Effect, SaysIf, Types, TypeOK, Decisions
  <2>2. CASE c.method = "evaluate"
    BY <1>1, <1>2, <2>2, ChromeSays DEF Effect, SaysIf, Types, TypeOK, Decisions
  <2>3. CASE c.method \notin {"fail", "evaluate"}
    BY <2>3 DEF Effect, Types, TypeOK
  <2> QED
    BY <2>1, <2>2, <2>3
<1>4. /\ network' \in BOOLEAN /\ fetch' \in {"off", "on", "auth"}
      /\ bound' \in SUBSET Names /\ dialog' \in BOOLEAN
  BY <1>1 DEF Effect, Types, TypeOK
<1>5. request' \in [Requests -> {"new", "paused", "running", "auth", "tried",
                                "responded", "loaded", "failed"}]
  BY DEF Effect, Becomes, Types, TypeOK
<1> QED
  BY <1>3, <1>4, <1>5

LEMMA ExecuteKeepsTypes ==
  ASSUME Types, Execute
  PROVE  Types'
<1>1. PICK i \in DOMAIN commands, a \in {"ok", "error"} :
        /\ Effect(commands[i], a)
        /\ commands' = RemoveAt(commands, i)
        /\ answer' = IF commands[i].by = None THEN answer
                     ELSE [answer EXCEPT ![commands[i].by] = a]
  BY DEF Execute
<1>2. commands[i] \in CommandSet /\ commands[i].by \in Threads \cup {None}
  BY DEF Types, CommandSet
<1>3. commands' \in Seq(CommandSet)
  <2>1. /\ i \in 1..Len(commands) /\ Len(commands) \in Nat
        /\ SubSeq(commands, 1, i - 1) \in Seq(CommandSet)
        /\ SubSeq(commands, i + 1, Len(commands)) \in Seq(CommandSet)
    BY DEF Types
  <2> QED
    BY <1>1, <2>1 DEF RemoveAt
<1> QED
  BY <1>1, <1>2, <1>3, EffectKeepsTypes DEF Execute, Types, TypeOK, threadVars, tabVars

LEMMA PageKeepsTypes ==
  ASSUME Types,
         \/ \E r \in Requests : StartRequest(r) \/ Challenge(r) \/ Respond(r) \/ Finish(r)
         \/ \E n \in Names : PageCalls(n)
         \/ OpenDialog
  PROVE  Types'
<1>1. ASSUME NEW r \in Requests, StartRequest(r) \/ Challenge(r) \/ Respond(r) \/ Finish(r)
      PROVE  Types'
  <2>1. \A type \in {"paused", "auth", "response", "finished", "failed"} :
          [type |-> type, of |-> r] \in Event
    BY DEF Event
  <2>2. \E type \in {"paused", "auth", "response", "finished", "failed"} :
          Says(type, r) \/ UNCHANGED events
    BY <1>1 DEF StartRequest, Challenge, Respond, Finish, SaysIf
  <2>3. events' \in Seq(Event)
    BY <2>1, <2>2, ChromeSays
  <2>4. request' \in [Requests -> {"new", "paused", "running", "auth", "tried",
                                  "responded", "loaded", "failed"}]
    BY <1>1 DEF StartRequest, Challenge, Respond, Finish, Becomes, Types, TypeOK
  <2> QED
    BY <1>1, <2>3, <2>4
    DEF StartRequest, Challenge, Respond, Finish, Types, TypeOK, threadVars, tabVars, opVars
<1>2. ASSUME NEW n \in Names, PageCalls(n) PROVE Types'
  <2>1. [type |-> "binding", of |-> n] \in Event
    BY DEF Event
  <2>2. events' \in Seq(Event)
    BY <1>2, <2>1, ChromeSays DEF PageCalls
  <2> QED
    BY <1>2, <2>2, BoundsAreNat DEF PageCalls, Types, TypeOK, threadVars, tabVars, opVars
<1>3. CASE OpenDialog
  <2>1. [type |-> "dialog", of |-> None] \in Event
    BY DEF Event
  <2>2. events' \in Seq(Event)
    BY <1>3, <2>1, ChromeSays DEF OpenDialog
  <2> QED
    BY <1>3, <2>2, BoundsAreNat DEF OpenDialog, Types, TypeOK, threadVars, tabVars, opVars
<1> QED
  BY <1>1, <1>2, <1>3

LEMMA TypesHoldInitially == Init => Types /\ Places
<1> SUFFICES ASSUME Init PROVE Types /\ Places
  OBVIOUS
<1>1. events \in Seq(Event) /\ commands \in Seq(CommandSet)
  BY DEF Init
<1>2. /\ ev \in Event \cup {None} /\ at = "idle" /\ todo \in SUBSET Callbacks
      /\ held \in [Locks -> Threads \cup {None}] /\ poisoned \in SUBSET Locks
  BY DEF Init
<1>3. /\ registered \in [Sets -> SUBSET Callbacks] /\ bindings \in SUBSET Names
      /\ decision \in Decisions /\ login \in BOOLEAN /\ params \in SUBSET Requests
  BY DEF Init, Decisions
<1>4. /\ op \in [Threads -> Operations \cup {Idle}]
      /\ step \in [Threads -> {"start", "first", "second", "last"}]
      /\ answer \in [Threads -> {"none", "ok", "error"}]
  BY DEF Init
<1>5. /\ network \in BOOLEAN /\ fetch \in {"off", "on", "auth"}
      /\ request \in [Requests -> {"new", "paused", "running", "auth", "tried",
                                   "responded", "loaded", "failed"}]
      /\ bound \in SUBSET Names /\ dialog \in BOOLEAN
  BY DEF Init
<1>6. pageCalls \in 0..MaxPageCalls
  BY BoundsAreNat DEF Init
<1> QED
  BY <1>1, <1>2, <1>3, <1>4, <1>5, <1>6 DEF Types, TypeOK, Places

(* Steps of the application, of time and of Chrome leave the event thread  *)
(* where it is, or it dies.                                                *)
LEMMA OthersKeepPlaces ==
  ASSUME Places, (at' = at /\ ev' = ev) \/ at' = "dead"
  PROVE  Places'
BY DEF Places

LEMMA OperationLeavesThread ==
  ASSUME NEW t \in Threads, Operation(t)
  PROVE  /\ ev' = ev /\ todo' = todo
         /\ at' = at \/ (at' = "dead" /\ t = EventThread)
         /\ events' = events /\ bound' = bound
<1>1. CASE \E m : Panics(t, m)
  BY <1>1 DEF Panics, chromeVars
<1>2. CASE ~\E m : Panics(t, m)
  BY <1>2 DEF Operation, LockPanics, AddEventListener, RegisterHandling, Insert,
              RemoveEventListener, DeregisterHandling, Delete, EnableRequestInterception,
              Authenticate, RemoveFunction, ExposeFunction, Calls, threadVars, chromeVars
<1> QED
  BY <1>1, <1>2

LEMMA NextKeepsTypes ==
  ASSUME Types, Places, [Next]_vars
  PROVE  Types' /\ Places'
<1>1. ASSUME NEW t \in Threads, Operation(t) PROVE Types' /\ Places'
  BY <1>1, OperationKeepsTypes, OperationLeavesThread, OthersKeepPlaces
<1>2. ASSUME NEW t \in Threads, CallExpires(t) PROVE Types' /\ Places'
  BY <1>2, ExpiryKeepsTypes, OthersKeepPlaces DEF CallExpires, threadVars
<1>3. ASSUME NEW t \in Clients, NEW o \in Operations, ClientStarts(t, o) PROVE Types' /\ Places'
  BY <1>3, ClientKeepsTypes, OthersKeepPlaces DEF ClientStarts, threadVars
<1>4. CASE EventThreadStep
  BY <1>4, EventThreadKeepsTypes
<1>5. CASE \/ \E r \in Requests : StartRequest(r) \/ Challenge(r) \/ Respond(r) \/ Finish(r)
           \/ \E n \in Names : PageCalls(n)
           \/ OpenDialog
  <2>1. at' = at /\ ev' = ev
    BY <1>5 DEF StartRequest, Challenge, Respond, Finish, PageCalls, OpenDialog, threadVars
  <2> QED
    BY <1>5, <2>1, PageKeepsTypes, OthersKeepPlaces
<1>6. CASE Execute
  BY <1>6, ExecuteKeepsTypes, OthersKeepPlaces DEF Execute, threadVars
<1>7. CASE UNCHANGED vars
  BY <1>7 DEF vars, Types, TypeOK, Places, threadVars, tabVars, opVars, chromeVars
<1> QED
  BY <1>1, <1>2, <1>3, <1>4, <1>5, <1>6, <1>7 DEF Next

-----------------------------------------------------------------------------
(* What runs is registered, because its mutex is held.                     *)

RunsUnderLock(s) == held[s] = EventThread /\ todo \subseteq registered[s]
RunsWhatIsRegistered ==
  /\ at = "listeners" => RunsUnderLock("listeners")
  /\ at = "handlers" => ev.type \in {"finished", "failed"} /\ RunsUnderLock(HandlersOf(ev.type))

(* Nobody takes a mutex from the event thread, or removes what is          *)
(* registered under one that it holds.                                     *)
LEMMA OperationRespectsLocks ==
  ASSUME Types, NEW t \in Threads, Operation(t), at' # "dead",
         NEW s \in Sets, held[s] = EventThread
  PROVE  held'[s] = EventThread /\ registered[s] \subseteq registered'[s]
<1> USE DEF Types, TypeOK
<1>0. EventThread \in Threads /\ EventThread # None /\ s \in Locks /\ s # "bindings"
  BY NoneIsNoThread DEF Threads, Sets, Locks
<1>1. CASE \E m : Panics(t, m)
  BY <1>0, <1>1 DEF Panics, Without, tabVars
<1>2. CASE AddEventListener(t) \/ RegisterHandling(t)
  BY <1>2 DEF AddEventListener, RegisterHandling, Insert, threadVars
<1>3. CASE RemoveEventListener(t) \/ DeregisterHandling(t)
  BY <1>0, <1>3 DEF RemoveEventListener, DeregisterHandling, Delete, Free, threadVars
<1>4. CASE ExposeFunction(t)
  BY <1>0, <1>4 DEF ExposeFunction
<1>5. CASE EnableRequestInterception(t) \/ Authenticate(t) \/ Calls(t)
  BY <1>5 DEF EnableRequestInterception, Authenticate, Calls, threadVars, tabVars
<1>6. CASE RemoveFunction(t) /\ ~\E m : Panics(t, m)
  BY <1>6 DEF RemoveFunction, threadVars
<1> QED
  BY <1>1, <1>2, <1>3, <1>4, <1>5, <1>6 DEF Operation, LockPanics

LEMMA NextKeepsRunning ==
  ASSUME Types, Places, RunsWhatIsRegistered, [Next]_vars
  PROVE  RunsWhatIsRegistered'
<1> USE DEF RunsWhatIsRegistered, RunsUnderLock
<1>0. \A type : HandlersOf(type) \in Sets /\ "listeners" \in Sets
  BY DEF HandlersOf, Sets
<1>1. ASSUME NEW t \in Threads, Operation(t) PROVE RunsWhatIsRegistered'
  BY <1>0, <1>1, OperationRespectsLocks, OperationLeavesThread
<1>2. ASSUME UNCHANGED <<at, ev, todo, held, registered>> PROVE RunsWhatIsRegistered'
  BY <1>2
<1>3. CASE EventThreadStep
  <2>1. CASE Receive
    BY <2>1 DEF Receive, Types, TypeOK, Locks, tabVars
  <2>2. CASE LoadingEnds
    <3>1. PICK type \in {"finished", "failed"} :
            /\ ev.type = type /\ held' = HeldInHandlers(HandlersOf(type))
            /\ todo' = registered[HandlersOf(type)]
      BY <2>2 DEF LoadingEnds, Handles
    <3>2. HandlersOf(type) \in Locks
      BY DEF HandlersOf, Locks
    <3> QED
      BY <2>2, <3>1, <3>2 DEF LoadingEnds, HeldInHandlers, Types, TypeOK, tabVars
  <2>3. ASSUME NEW l \in Callbacks, RunListener(l) \/ RunHandler(l) PROVE RunsWhatIsRegistered'
    BY <2>3 DEF RunListener, RunHandler, tabVars
  <2>4. CASE at' \notin {"listeners", "handlers"}
    BY <2>4
  <2>5. CASE /\ ~Receive /\ ~LoadingEnds /\ ~\E l \in Callbacks : RunListener(l) \/ RunHandler(l)
             /\ at' \in {"listeners", "handlers"}
    BY <1>3, <2>5 DEF EventThreadStep, AskInterceptor, Decide, Answers, ContinueWithAuth, Answered,
         CallBinding, BindingReturns, ResponseReceived, HandlersReturn, OtherEvent, EndsEvent, Panics
  <2> QED
    BY <1>3, <2>1, <2>2, <2>3, <2>4, <2>5
<1>4. CASE \/ \E r \in Requests : StartRequest(r) \/ Challenge(r) \/ Respond(r) \/ Finish(r)
           \/ \E n \in Names : PageCalls(n)
           \/ OpenDialog \/ Execute
           \/ \E t \in Threads : CallExpires(t)
           \/ \E t \in Clients, o \in Operations : ClientStarts(t, o)
           \/ UNCHANGED vars
  BY <1>2, <1>4 DEF StartRequest, Challenge, Respond, Finish, PageCalls, OpenDialog, Execute,
       CallExpires, ClientStarts, vars, threadVars, tabVars
<1> QED
  BY <1>1, <1>3, <1>4 DEF Next

-----------------------------------------------------------------------------
(* Until remove_function is called, whatever the page can call or has      *)
(* called is in the map, and no mutex is poisoned.                         *)

NamesAreKnown ==
  /\ bound \subseteq bindings
  /\ \A i \in DOMAIN commands : commands[i].method = "addBinding" => commands[i].arg \in bindings
  /\ \A i \in DOMAIN events : events[i].type = "binding" => events[i].of \in bindings
  /\ at \notin {"idle", "dead"} /\ ev.type = "binding" => ev.of \in bindings
NothingPanics == at # "dead" /\ poisoned = {}
UntilUnexposed == unexposed = {} => NamesAreKnown /\ NothingPanics

LEMMA SendKnown ==
  ASSUME Types, NamesAreKnown, NEW t, NEW method, NEW arg, Sends(t, method, arg),
         bindings \subseteq bindings', method = "addBinding" => arg \in bindings'
  PROVE  \A i \in DOMAIN commands' :
           commands'[i].method = "addBinding" => commands'[i].arg \in bindings'
<1> DEFINE c == Command(t, method, arg)
<1>1. c.method = method /\ c.arg = arg
  BY DEF Command
<1>2. commands' = Append(commands, c) /\ commands \in Seq(CommandSet)
  BY DEF Sends, Types
<1> HIDE DEF c
<1>3. \A i \in DOMAIN commands' : \/ i \in DOMAIN commands /\ commands'[i] = commands[i]
                                 \/ commands'[i] = c
  BY <1>2
<1> QED
  BY <1>1, <1>3 DEF NamesAreKnown

LEMMA OperationKeepsKnown ==
  ASSUME Types, NEW t \in Threads, Operation(t), unexposed' = {}, NamesAreKnown, NothingPanics
  PROVE  NamesAreKnown' /\ NothingPanics'
<1>0. ~LockPanics(t) /\ ~RemoveFunction(t)
  BY DEF LockPanics, RemoveFunction, NothingPanics
<1>1. poisoned' = poisoned /\ at' = at /\ ev' = ev /\ events' = events /\ bound' = bound
  BY <1>0 DEF Operation, AddEventListener, RegisterHandling, Insert, RemoveEventListener,
       DeregisterHandling, Delete, EnableRequestInterception, Authenticate, ExposeFunction, Calls,
       threadVars, chromeVars
<1>2. CASE ExposeFunction(t)
  <2>1. bindings \subseteq bindings'
    BY <1>2 DEF ExposeFunction, ExposeInserts
  <2>2. \A i \in DOMAIN commands' :
          commands'[i].method = "addBinding" => commands'[i].arg \in bindings'
    <3>1. CASE step[t] = "start" /\ Sends(t, "addBinding", op[t].what)
      <4>1. op[t].what \in bindings'
        BY <1>2, <3>1 DEF ExposeFunction, ExposeInserts
      <4> QED
        BY <2>1, <3>1, <4>1, SendKnown
    <3>2. CASE Sends(t, "addScript", op[t].what)
      BY <2>1, <3>2, SendKnown
    <3>3. CASE UNCHANGED commands
      BY <2>1, <3>3 DEF NamesAreKnown
    <3> QED
      BY <1>2, <3>1, <3>2, <3>3 DEF ExposeFunction
  <2> QED
    BY <1>1, <2>1, <2>2 DEF NamesAreKnown, NothingPanics
<1>3. CASE Calls(t)
  <2>1. UNCHANGED bindings
    BY <1>3 DEF Calls, tabVars
  <2>2. UNCHANGED commands \/ \E m, a : m # "addBinding" /\ Sends(t, m, a)
    BY <1>3 DEF Calls, MethodOf
  <2> QED
    BY <1>1, <2>1, <2>2, SendKnown DEF NamesAreKnown, NothingPanics
<1>4. CASE ~ExposeFunction(t) /\ ~Calls(t)
  <2>1. UNCHANGED <<bindings, commands>>
    BY <1>0, <1>4 DEF Operation, AddEventListener, RegisterHandling, Insert, RemoveEventListener,
         DeregisterHandling, Delete, EnableRequestInterception, Authenticate
  <2> QED
    BY <1>1, <2>1 DEF NamesAreKnown, NothingPanics
<1> QED
  BY <1>2, <1>3, <1>4

LEMMA EventThreadKeepsKnown ==
  ASSUME Types, Places, EventThreadStep, unexposed' = {}, NamesAreKnown, NothingPanics
  PROVE  NamesAreKnown' /\ NothingPanics'
<1>0. bindings' = bindings /\ bound' = bound /\ unexposed = {}
  BY DEF EventThreadStep, Receive, RunListener, RunHandler, AskInterceptor, Decide,
       ContinueWithAuth, Answered, CallBinding, BindingReturns, ResponseReceived, LoadingEnds,
       HandlersReturn, OtherEvent, Panics, tabVars, chromeVars, history
<1>1. CASE Receive
  <2>1. /\ Head(events) = events[1] /\ 1 \in DOMAIN events
        /\ \A i \in DOMAIN Tail(events) : i + 1 \in DOMAIN events /\ Tail(events)[i] = events[i + 1]
    BY <1>1 DEF Receive, Types, TypeOK
  <2> QED
    BY <1>0, <1>1, <2>1 DEF Receive, NamesAreKnown, NothingPanics, opVars
<1>2. CASE CallBinding
  <2>1. ev.of \in bindings
    BY <1>2 DEF CallBinding, Handles, NamesAreKnown
  <2>2. at' = "ending" /\ UNCHANGED <<events, ev, poisoned>> /\ commands' = commands
    BY <1>2, <2>1 DEF CallBinding, NothingPanics, Callback
  <2> QED
    BY <1>0, <1>2, <2>2 DEF NamesAreKnown, NothingPanics, CallBinding, Handles
<1>3. CASE Decide \/ ContinueWithAuth
  <2>1. PICK m \in ForRequest : Sends(EventThread, m, ev.of)
    BY <1>3 DEF Decide, Answers, ContinueWithAuth, ForRequest, Types, TypeOK
  <2>2. m # "addBinding"
    BY <2>1 DEF ForRequest, Decisions
  <2>3. /\ at' = "answering" /\ UNCHANGED <<events, ev, poisoned>>
        /\ at \notin {"idle", "dead"}
    BY <1>3 DEF Decide, Answers, ContinueWithAuth, Handles
  <2> QED
    BY <1>0, <2>1, <2>2, <2>3, SendKnown DEF NamesAreKnown, NothingPanics
<1>4. CASE ~Receive /\ ~CallBinding /\ ~Decide /\ ~ContinueWithAuth
  <2>1. UNCHANGED <<events, commands, poisoned>>
    BY <1>4 DEF EventThreadStep, RunListener, RunHandler, AskInterceptor, Answered, BindingReturns,
         ResponseReceived, LoadingEnds, HandlersReturn, OtherEvent, Callback, opVars
  <2>2. at' = "idle" \/ (at' # "dead" /\ UNCHANGED ev /\ at \notin {"idle", "dead"})
    BY <1>4 DEF EventThreadStep, RunListener, RunHandler, AskInterceptor, Answered, BindingReturns,
         ResponseReceived, LoadingEnds, HandlersReturn, OtherEvent, EndsEvent, Handles
  <2> QED
    BY <1>0, <2>1, <2>2 DEF NamesAreKnown, NothingPanics
<1> QED
  BY <1>1, <1>2, <1>3, <1>4

LEMMA ChromeSaysKnown ==
  ASSUME Types, NamesAreKnown, NEW type, NEW x, Says(type, x) \/ UNCHANGED events,
         type = "binding" => x \in bindings
  PROVE  \A i \in DOMAIN events' : events'[i].type = "binding" => events'[i].of \in bindings
<1> DEFINE e == [type |-> type, of |-> x]
<1>1. e.type = type /\ e.of = x
  OBVIOUS
<1>2. (events' = Append(events, e) \/ events' = events) /\ events \in Seq(Event)
  BY DEF Says, Types, TypeOK
<1> HIDE DEF e
<1>3. \A i \in DOMAIN events' : \/ i \in DOMAIN events /\ events'[i] = events[i]
                               \/ events'[i] = e
  BY <1>2
<1> QED
  BY <1>1, <1>3 DEF NamesAreKnown

(* What is left of a sequence without one of its elements, in its order.    *)
LEMMA RemovalKeepsOthers ==
  ASSUME NEW S, NEW s \in Seq(S), NEW i \in DOMAIN s
  PROVE  \A j \in DOMAIN RemoveAt(s, i) : \E k \in DOMAIN s :
           /\ RemoveAt(s, i)[j] = s[k]
           /\ j \in Nat /\ k = IF j < i THEN j ELSE j + 1
<1> DEFINE m == i - 1
           n == Len(s) - i
           before == SubSeq(s, 1, i - 1)
           after  == SubSeq(s, i + 1, Len(s))
<1>1. Len(s) \in Nat /\ i \in 1..Len(s) /\ DOMAIN s = 1..Len(s)
  OBVIOUS
<1>2. m \in Nat /\ n \in Nat /\ DOMAIN s = 1..(m + 1 + n) /\ i = m + 1
  BY <1>1
<1>3. RemoveAt(s, i) = before \o after
  BY DEF RemoveAt
<1>4. /\ before \in Seq(S) /\ Len(before) = m
      /\ \A j \in 1..m : before[j] = s[j]
  OBVIOUS
<1>5. /\ after \in Seq(S) /\ Len(after) = n
      /\ \A j \in 1..n : after[j] = s[j + m + 1]
  OBVIOUS
<1> HIDE DEF m, n, before, after
<1>6. /\ DOMAIN RemoveAt(s, i) = 1..(m + n)
      /\ \A j \in 1..m : RemoveAt(s, i)[j] = before[j]
      /\ \A j \in (m + 1)..(m + n) : RemoveAt(s, i)[j] = after[j - m]
  BY SMTT(30), <1>3, <1>4, <1>5, ConcatProperties
<1>7. ASSUME NEW j \in 1..(m + n)
      PROVE  \E k \in 1..(m + 1 + n) :
               RemoveAt(s, i)[j] = s[k] /\ j \in Nat /\ k = IF j < i THEN j ELSE j + 1
  <2>1. CASE j \in 1..m
    <3>1. j \in 1..(m + 1 + n) /\ j < i /\ j \in Nat
      BY <1>2, <2>1
    <3> QED
      BY <1>4, <1>6, <2>1, <3>1
  <2>2. CASE j \in (m + 1)..(m + n)
    <3>1. /\ j - m \in 1..n /\ j + 1 \in 1..(m + 1 + n) /\ j - m + m + 1 = j + 1
          /\ ~(j < i) /\ j \in Nat
      BY <1>2, <2>2
    <3> QED
      BY <1>5, <1>6, <2>2, <3>1
  <2> QED
    BY <1>2, <2>1, <2>2
<1> QED
  BY <1>2, <1>6, <1>7

LEMMA ExecuteKeepsKnown ==
  ASSUME Types, Execute, NamesAreKnown, NothingPanics
  PROVE  NamesAreKnown' /\ NothingPanics'
<1>1. PICK i \in DOMAIN commands, a \in {"ok", "error"} :
        /\ Effect(commands[i], a)
        /\ commands' = RemoveAt(commands, i)
  BY DEF Execute
<1>2. UNCHANGED <<at, ev, poisoned, bindings>>
  BY DEF Execute, threadVars, tabVars
<1>3. \A j \in DOMAIN commands' : \E k \in DOMAIN commands : commands'[j] = commands[k]
  BY <1>1, RemovalKeepsOthers DEF Types
<1>4. \A j \in DOMAIN commands' :
        commands'[j].method = "addBinding" => commands'[j].arg \in bindings'
  BY <1>2, <1>3 DEF NamesAreKnown
<1>5. bound' \subseteq bindings'
  BY <1>1, <1>2 DEF Effect, NamesAreKnown
<1>6. \A j \in DOMAIN events' : events'[j].type = "binding" => events'[j].of \in bindings'
  <2>1. CASE Says("binding", commands[i].arg) /\ commands[i].arg \in bound
    BY <1>2, <2>1, ChromeSaysKnown DEF NamesAreKnown
  <2>2. CASE Says("failed", commands[i].arg)
    BY <1>2, <2>2, ChromeSaysKnown
  <2>3. CASE UNCHANGED events
    BY <1>2, <2>3 DEF NamesAreKnown
  <2> QED
    BY <1>1, <2>1, <2>2, <2>3 DEF Effect, SaysIf
<1> QED
  BY <1>2, <1>4, <1>5, <1>6 DEF NamesAreKnown, NothingPanics

LEMMA PageKeepsKnown ==
  ASSUME Types, NamesAreKnown, NothingPanics,
         \/ \E r \in Requests : StartRequest(r) \/ Challenge(r) \/ Respond(r) \/ Finish(r)
         \/ \E n \in Names : PageCalls(n)
         \/ OpenDialog
  PROVE  NamesAreKnown' /\ NothingPanics'
<1>1. UNCHANGED <<at, ev, poisoned, bindings, commands, bound>>
  BY DEF StartRequest, Challenge, Respond, Finish, PageCalls, OpenDialog, threadVars, tabVars, opVars
<1>2. \E type, x : (Says(type, x) \/ UNCHANGED events) /\ (type = "binding" => x \in bindings)
  BY DEF StartRequest, Challenge, Respond, Finish, PageCalls, OpenDialog, SaysIf, NamesAreKnown
<1> QED
  BY <1>1, <1>2, ChromeSaysKnown DEF NamesAreKnown, NothingPanics

LEMMA ExpiryKeepsKnown ==
  ASSUME Types, NEW t \in Threads, CallExpires(t), NamesAreKnown, NothingPanics
  PROVE  NamesAreKnown' /\ NothingPanics'
<1>1. UNCHANGED <<at, ev, poisoned, bindings, bound, events>>
  BY DEF CallExpires, threadVars, tabVars, chromeVars
<1>2. ASSUME NEW i \in DOMAIN commands'
      PROVE  /\ i \in DOMAIN commands
             /\ commands'[i] = commands[i] \/ commands'[i] = [commands[i] EXCEPT !.by = None]
  BY DEF CallExpires
<1>3. ASSUME NEW i \in DOMAIN commands
      PROVE  /\ [commands[i] EXCEPT !.by = None].method = commands[i].method
             /\ [commands[i] EXCEPT !.by = None].arg = commands[i].arg
  <2>1. commands[i] \in CommandSet
    BY DEF Types
  <2> QED
    BY <2>1 DEF CommandSet
<1> QED
  BY <1>1, <1>2, <1>3 DEF NamesAreKnown, NothingPanics

LEMMA NextKeepsKnown ==
  ASSUME Types, Places, UntilUnexposed, [Next]_vars
  PROVE  UntilUnexposed'
<1> SUFFICES ASSUME unexposed' = {} PROVE NamesAreKnown' /\ NothingPanics'
  BY DEF UntilUnexposed
<1>0. unexposed = {}
  <2>1. unexposed \subseteq unexposed'
    BY DEF Next, Operation, LockPanics, AddEventListener, RegisterHandling, Insert,
         RemoveEventListener, DeregisterHandling, Delete, EnableRequestInterception, Authenticate,
         RemoveFunction, ExposeFunction, Calls, CallExpires, ClientStarts, EventThreadStep, Receive,
         RunListener, RunHandler, AskInterceptor, Decide, ContinueWithAuth, Answered, CallBinding,
         BindingReturns, ResponseReceived, LoadingEnds, HandlersReturn, OtherEvent, StartRequest,
         Challenge, Respond, Finish, PageCalls, OpenDialog, Execute, history, vars
  <2> QED
    BY <2>1
<1>1. NamesAreKnown /\ NothingPanics
  BY <1>0 DEF UntilUnexposed
<1>2. ASSUME UNCHANGED <<at, ev, poisoned, bindings, commands, bound, events>>
      PROVE  NamesAreKnown' /\ NothingPanics'
  BY <1>1, <1>2 DEF NamesAreKnown, NothingPanics
<1>3. ASSUME NEW t \in Clients, NEW o \in Operations, ClientStarts(t, o)
      PROVE  NamesAreKnown' /\ NothingPanics'
  BY <1>2, <1>3 DEF ClientStarts, threadVars, tabVars, chromeVars
<1>4. CASE UNCHANGED vars
  BY <1>2, <1>4 DEF vars, threadVars, tabVars, chromeVars, opVars
<1> QED
  BY <1>1, <1>3, <1>4, OperationKeepsKnown, ExpiryKeepsKnown, EventThreadKeepsKnown,
     PageKeepsKnown, ExecuteKeepsKnown DEF Next

-----------------------------------------------------------------------------
(* Each thread waits for one call at a time; so the answer that a register *)
(* operation sees is that of its own Network.enable.                       *)

Sending == {"enable", "fetch", "evaluate", "dialog", "body", "expose"}

StepsAreTaken ==
  /\ \A t \in Threads : step[t] # "start" => MethodOf(op[t]) \in Sending
  /\ at \in {"idle", "answering", "dead"} => op[EventThread] = Idle

OneCallEach ==
  /\ \A t \in Threads : Waiting(t) =>
       /\ answer[t] = "none"
       /\ step[t] \in {"first", "second"} \/ (t = EventThread /\ at = "answering")
  /\ \A i, j \in DOMAIN commands :
       commands[i].by = commands[j].by /\ commands[i].by # None => i = j

Enabling ==
  \A t \in Threads : op[t].do = "add" =>
    /\ \A i \in DOMAIN commands : commands[i].by = t => commands[i].method = "enable"
    /\ step[t] = "first" /\ answer[t] = "ok" => network
    /\ step[t] = "last" => network

CallsAreOwn == StepsAreTaken /\ OneCallEach /\ Enabling

(* No call of a thread that is not in the middle of one.                   *)
LEMMA NoCall ==
  ASSUME StepsAreTaken, OneCallEach, NEW t \in Threads,
         \/ step[t] \in {"start", "last"} /\ ~(t = EventThread /\ at = "answering")
         \/ MethodOf(op[t]) \notin Sending /\ ~(t = EventThread /\ at = "answering")
         \/ answer[t] # "none"
  PROVE  ~Waiting(t)
BY DEF StepsAreTaken, OneCallEach

(* How an operation of a thread goes on.                                   *)
Ended(t) ==
  /\ Quits(t) /\ commands' = commands
  /\ at' = at \/ (t = EventThread /\ at' = "dead")
Called(t) ==
  /\ MethodOf(op[t]) \in Sending /\ at' = at /\ (Goes(t, "first") \/ Goes(t, "second"))
  /\ \E method, arg : Sends(t, method, arg) /\ (op[t].do = "add" => method = "enable")
GoneOn(t) ==
  /\ MethodOf(op[t]) \in Sending /\ at' = at /\ Goes(t, "last")
  /\ step[t] = "first" /\ answer[t] = "ok" /\ op[t].do = "add"
  /\ UNCHANGED <<commands, answer>>

LEMMA OperationKinds ==
  ASSUME Types, StepsAreTaken, OneCallEach, NEW t \in Threads, Operation(t)
  PROVE  ~Waiting(t) /\ (Ended(t) \/ Called(t) \/ GoneOn(t))
<1>1. op[t] # Idle => ~(t = EventThread /\ at = "answering")
  BY DEF StepsAreTaken
<1>2. op[t].do # "idle" => op[t] # Idle
  BY DEF Idle
<1>3. CASE LockPanics(t)
  <2>1. Ended(t)
    BY <1>3 DEF LockPanics, Panics, Ended
  <2>2. step[t] \in {"start", "last"} /\ op[t] # Idle
    BY <1>3 DEF LockPanics, AtLock
  <2> QED
    BY <1>1, <2>1, <2>2, NoCall
<1>4. CASE AddEventListener(t)
  <2>1. Ended(t) /\ MethodOf(op[t]) = "add" /\ op[t].do = "add"
    BY <1>4 DEF AddEventListener, Insert, Ended, threadVars, MethodOf
  <2> QED
    BY <1>1, <1>2, <2>1, NoCall DEF Sending
<1>5. CASE RegisterHandling(t)
  <2>1. Ended(t) /\ step[t] = "last" /\ op[t].do = "add"
    BY <1>5 DEF RegisterHandling, MayInsert, Insert, Ended, threadVars
  <2> QED
    BY <1>1, <1>2, <2>1, NoCall
<1>6. CASE RemoveEventListener(t) \/ DeregisterHandling(t)
  <2>1. Ended(t) /\ op[t].do \in {"remove", "removeAll"}
    BY <1>6 DEF RemoveEventListener, DeregisterHandling, Delete, Ended, threadVars
  <2> QED
    BY <1>1, <1>2, <2>1, NoCall DEF Sending, MethodOf
<1>7. CASE EnableRequestInterception(t) \/ Authenticate(t)
  <2>1. Ended(t) /\ op[t].do \in {"intercept", "authenticate"}
    BY <1>7 DEF EnableRequestInterception, Authenticate, Ended, threadVars
  <2> QED
    BY <1>1, <1>2, <2>1, NoCall DEF Sending, MethodOf
<1>8. CASE RemoveFunction(t)
  <2>1. Ended(t) /\ op[t].do = "unexpose"
    <3>1. CASE Panics(t, {"bindings"})
      BY <1>8, <3>1 DEF RemoveFunction, Panics, Ended
    <3>2. CASE ~Panics(t, {"bindings"})
      BY <1>8, <3>2 DEF RemoveFunction, Ended, threadVars
    <3> QED
      BY <3>1, <3>2
  <2> QED
    BY <1>1, <1>2, <2>1, NoCall DEF Sending, MethodOf
<1>9. CASE ExposeFunction(t)
  <2>1. at' = at /\ op[t].do = "expose" /\ MethodOf(op[t]) = "expose"
    BY <1>9 DEF ExposeFunction, MethodOf
  <2>2. CASE step[t] = "start" /\ Sends(t, "addBinding", op[t].what) /\ Goes(t, "first")
    BY <1>1, <1>2, <2>1, <2>2, NoCall DEF Called, Sending
  <2>3. CASE answer[t] = "ok" /\ Sends(t, "addScript", op[t].what) /\ Goes(t, "second")
    BY <2>1, <2>3, NoCall DEF Called, Sending
  <2>4. CASE answer[t] \in {"ok", "error"} /\ Quits(t) /\ UNCHANGED commands
    BY <2>1, <2>4, NoCall DEF Ended
  <2> QED
    BY <1>9, <2>2, <2>3, <2>4 DEF ExposeFunction
<1>10. CASE Calls(t)
  <2>1. at' = at /\ MethodOf(op[t]) \in Sending
    BY <1>10 DEF Calls, threadVars, Sending
  <2>2. op[t] # Idle
    BY <2>1 DEF Sending, MethodOf, Idle
  <2>3. CASE /\ step[t] = "start" /\ Goes(t, "first")
             /\ Sends(t, MethodOf(op[t]),
                      IF op[t].do \in {"fetch", "evaluate"} THEN op[t].what ELSE None)
    <3>1. op[t].do = "add" => MethodOf(op[t]) = "enable"
      BY <2>1 DEF MethodOf, Sending
    <3> QED
      BY <1>1, <2>1, <2>2, <2>3, <3>1, NoCall DEF Called
  <2>4. CASE /\ step[t] = "first" /\ answer[t] # "none" /\ UNCHANGED commands
             /\ IF op[t].do = "add" /\ answer[t] = "ok"
                THEN Goes(t, "last") /\ UNCHANGED answer
                ELSE Quits(t) /\ UNCHANGED made
    BY <2>1, <2>4, NoCall DEF GoneOn, Ended
  <2> QED
    BY <1>10, <2>3, <2>4 DEF Calls
<1> QED
  BY <1>3, <1>4, <1>5, <1>6, <1>7, <1>8, <1>9, <1>10 DEF Operation

(* A command that is sent.                                                 *)
LEMMA Sent ==
  ASSUME Types, NEW t, NEW method, NEW arg, Sends(t, method, arg)
  PROVE  /\ Len(commands) \in Nat /\ DOMAIN commands = 1..Len(commands)
         /\ DOMAIN commands' = 1..Len(commands) + 1
         /\ \A i \in 1..Len(commands) : commands'[i] = commands[i]
         /\ commands'[Len(commands) + 1].by = t
         /\ commands'[Len(commands) + 1].method = method
<1> DEFINE c == Command(t, method, arg)
<1>1. c.by = t /\ c.method = method
  BY DEF Command
<1>2. commands' = Append(commands, c) /\ commands \in Seq(CommandSet)
  BY DEF Sends, Types
<1> HIDE DEF c
<1>3. /\ Len(commands) \in Nat /\ DOMAIN commands = 1..Len(commands)
      /\ DOMAIN commands' = 1..Len(commands) + 1
      /\ \A i \in 1..Len(commands) : commands'[i] = commands[i]
      /\ commands'[Len(commands) + 1] = c
  BY <1>2
<1> QED
  BY <1>1, <1>3

LEMMA SentAlone ==
  ASSUME Types, OneCallEach, NEW t \in Threads, ~Waiting(t),
         NEW method, NEW arg, Sends(t, method, arg)
  PROVE  /\ \A i, j \in DOMAIN commands' :
              commands'[i].by = commands'[j].by /\ commands'[i].by # None => i = j
         /\ \A u \in Threads : u # t /\ Waiting(u)' => Waiting(u)
         /\ \A u \in Threads : u # t => answer'[u] = answer[u]
         /\ answer'[t] = "none"
         /\ \A i \in DOMAIN commands' :
              \/ i \in DOMAIN commands /\ commands'[i] = commands[i] /\ commands'[i].by # t
              \/ commands'[i].by = t /\ commands'[i].method = method
<1>1. answer \in [Threads -> {"none", "ok", "error"}]
  BY DEF Types, TypeOK
<1>2. \A i \in DOMAIN commands : commands[i].by # t
  BY DEF Waiting
<1>3. /\ \A u \in Threads : u # t => answer'[u] = answer[u]
      /\ answer'[t] = "none"
  BY <1>1 DEF Sends
<1>4. \A i \in DOMAIN commands' :
        \/ i \in DOMAIN commands /\ commands'[i] = commands[i] /\ commands'[i].by # t
        \/ i = Len(commands) + 1 /\ commands'[i].by = t /\ commands'[i].method = method
  BY <1>2, Sent
<1>5. \A i, j \in DOMAIN commands' :
        commands'[i].by = commands'[j].by /\ commands'[i].by # None => i = j
  BY <1>4 DEF OneCallEach
<1>6. \A u \in Threads : u # t /\ Waiting(u)' => Waiting(u)
  BY <1>4 DEF Waiting
<1> QED
  BY <1>3, <1>4, <1>5, <1>6

LEMMA OperationLeavesChrome ==
  ASSUME NEW t \in Threads, Operation(t)
  PROVE  network' = network /\ request' = request
<1>1. CASE \E m : Panics(t, m)
  BY <1>1 DEF Panics, chromeVars
<1>2. CASE ~\E m : Panics(t, m)
  BY <1>2 DEF Operation, LockPanics, AddEventListener, RegisterHandling, Insert,
              RemoveEventListener, DeregisterHandling, Delete, EnableRequestInterception,
              Authenticate, RemoveFunction, ExposeFunction, Calls, chromeVars
<1> QED
  BY <1>1, <1>2

LEMMA EndedKeepsCalls ==
  ASSUME Types, CallsAreOwn, NEW t \in Threads, ~Waiting(t), Ended(t), network' = network
  PROVE  CallsAreOwn'
<1>1. /\ op'[t] = Idle /\ step'[t] = "start" /\ commands' = commands
      /\ \A u \in Threads : u # t =>
           op'[u] = op[u] /\ step'[u] = step[u] /\ answer'[u] = answer[u]
      /\ at' = at \/ (t = EventThread /\ at' = "dead")
  BY DEF Ended, Quits, Types, TypeOK
<1>2. StepsAreTaken'
  <2>1. ASSUME NEW u \in Threads, step'[u] # "start" PROVE MethodOf(op'[u]) \in Sending
    BY <1>1, <2>1 DEF CallsAreOwn, StepsAreTaken
  <2>2. EventThread \in Threads
    BY DEF Threads
  <2>3. at' \in {"idle", "answering", "dead"} => op'[EventThread] = Idle
    BY <1>1, <2>2 DEF CallsAreOwn, StepsAreTaken
  <2> QED
    BY <2>1, <2>3 DEF StepsAreTaken, MethodOf
<1>3. \A u \in Threads : Waiting(u)' = Waiting(u)
  BY <1>1 DEF Waiting
<1>4. OneCallEach'
  BY <1>1, <1>3 DEF CallsAreOwn, OneCallEach
<1>5. Enabling'
  BY <1>1 DEF CallsAreOwn, Enabling, Idle
<1> QED
  BY <1>2, <1>4, <1>5 DEF CallsAreOwn

LEMMA CalledKeepsCalls ==
  ASSUME Types, CallsAreOwn, NEW t \in Threads, ~Waiting(t), Called(t), network' = network
  PROVE  CallsAreOwn'
<1>1. PICK method, arg : Sends(t, method, arg) /\ (op[t].do = "add" => method = "enable")
  BY DEF Called
<1>2. /\ op' = op /\ at' = at /\ step'[t] \in {"first", "second"}
      /\ \A u \in Threads : u # t => step'[u] = step[u]
      /\ MethodOf(op[t]) \in Sending
  BY DEF Called, Goes, Types, TypeOK
<1>3. /\ \A i, j \in DOMAIN commands' :
           commands'[i].by = commands'[j].by /\ commands'[i].by # None => i = j
      /\ \A u \in Threads : u # t /\ Waiting(u)' => Waiting(u)
      /\ \A u \in Threads : u # t => answer'[u] = answer[u]
      /\ answer'[t] = "none"
      /\ \A i \in DOMAIN commands' :
           \/ i \in DOMAIN commands /\ commands'[i] = commands[i] /\ commands'[i].by # t
           \/ commands'[i].by = t /\ commands'[i].method = method
  BY <1>1, SentAlone DEF CallsAreOwn
<1>4. StepsAreTaken'
  BY <1>2 DEF CallsAreOwn, StepsAreTaken, MethodOf
<1>5. OneCallEach'
  BY <1>2, <1>3 DEF CallsAreOwn, OneCallEach
<1>6. Enabling'
  <2>1. CallsAreOwn /\ Enabling
    BY DEF CallsAreOwn
  <2>2. ASSUME NEW u \in Threads, op'[u].do = "add"
        PROVE  /\ \A i \in DOMAIN commands' :
                    commands'[i].by = u => commands'[i].method = "enable"
               /\ step'[u] = "first" /\ answer'[u] = "ok" => network'
               /\ step'[u] = "last" => network'
    BY <1>1, <1>2, <1>3, <2>1, <2>2 DEF Enabling
  <2> QED
    BY <2>2 DEF Enabling
<1> QED
  BY <1>4, <1>5, <1>6 DEF CallsAreOwn

LEMMA GoneOnKeepsCalls ==
  ASSUME Types, CallsAreOwn, NEW t \in Threads, ~Waiting(t), GoneOn(t), network' = network
  PROVE  CallsAreOwn'
<1>1. /\ op' = op /\ at' = at /\ step'[t] = "last" /\ UNCHANGED <<commands, answer>>
      /\ \A u \in Threads : u # t => step'[u] = step[u]
      /\ MethodOf(op[t]) \in Sending
      /\ step[t] = "first" /\ answer[t] = "ok" /\ op[t].do = "add"
  BY DEF GoneOn, Goes, Types, TypeOK
<1>2. \A u \in Threads : Waiting(u)' = Waiting(u)
  BY <1>1 DEF Waiting
<1>3. StepsAreTaken'
  BY <1>1 DEF CallsAreOwn, StepsAreTaken, MethodOf
<1>4. OneCallEach'
  BY <1>1, <1>2 DEF CallsAreOwn, OneCallEach
<1>5. Enabling'
  BY <1>1 DEF CallsAreOwn, Enabling
<1> QED
  BY <1>3, <1>4, <1>5 DEF CallsAreOwn

LEMMA OperationKeepsCalls ==
  ASSUME Types, CallsAreOwn, NEW t \in Threads, Operation(t)
  PROVE  CallsAreOwn'
<1>1. ~Waiting(t) /\ (Ended(t) \/ Called(t) \/ GoneOn(t))
  BY OperationKinds DEF CallsAreOwn
<1> QED
  BY <1>1, OperationLeavesChrome, EndedKeepsCalls, CalledKeepsCalls, GoneOnKeepsCalls

(* An operation that a thread starts: a client, or the event thread in a   *)
(* callback.                                                               *)
LEMMA StartKeepsCalls ==
  ASSUME Types, CallsAreOwn, NEW t \in Threads, NEW o, StartsOp(t, o),
         UNCHANGED <<answer, commands, network>>,
         t = EventThread => at # "answering" /\ at' \notin {"idle", "answering", "dead"},
         t # EventThread => at' = at
  PROVE  CallsAreOwn'
<1>1. /\ op[t] = Idle /\ op'[t] = o /\ step'[t] = "start"
      /\ \A u \in Threads : u # t => op'[u] = op[u] /\ step'[u] = step[u]
  BY DEF StartsOp, MayDo, Types, TypeOK
<1>2. ~Waiting(t)
  BY <1>1, NoCall DEF CallsAreOwn, MethodOf, Idle, Sending
<1>3. \A u \in Threads : Waiting(u)' = Waiting(u)
  BY DEF Waiting
<1>4. StepsAreTaken'
  <2>1. ASSUME NEW u \in Threads, step'[u] # "start" PROVE MethodOf(op'[u]) \in Sending
    BY <1>1, <2>1 DEF CallsAreOwn, StepsAreTaken
  <2>2. EventThread \in Threads
    BY DEF Threads
  <2>3. at' \in {"idle", "answering", "dead"} => op'[EventThread] = Idle
    BY <1>1, <2>2 DEF CallsAreOwn, StepsAreTaken
  <2> QED
    BY <2>1, <2>3 DEF StepsAreTaken, MethodOf
<1>5. OneCallEach'
  <2>1. ASSUME NEW u \in Threads, Waiting(u)
        PROVE  /\ answer'[u] = "none"
               /\ step'[u] \in {"first", "second"} \/ (u = EventThread /\ at' = "answering")
    BY <1>1, <1>2, <2>1 DEF CallsAreOwn, OneCallEach
  <2> QED
    BY <1>3, <2>1 DEF CallsAreOwn, OneCallEach
<1>6. Enabling'
  <2>1. ASSUME NEW u \in Threads, op'[u].do = "add"
        PROVE  /\ \A i \in DOMAIN commands' :
                    commands'[i].by = u => commands'[i].method = "enable"
               /\ step'[u] = "first" /\ answer'[u] = "ok" => network'
               /\ step'[u] = "last" => network'
    BY <1>1, <1>2, <2>1 DEF CallsAreOwn, Enabling, Waiting
  <2> QED
    BY <2>1 DEF Enabling
<1> QED
  BY <1>4, <1>5, <1>6 DEF CallsAreOwn

LEMMA StillKeepsCalls ==
  ASSUME CallsAreOwn, UNCHANGED <<op, step, answer, commands>>, network => network',
         \/ at' = at
         \/ ~Waiting(EventThread) /\ op[EventThread] = Idle
  PROVE  CallsAreOwn'
<1>1. \A u \in Threads : Waiting(u)' = Waiting(u)
  BY DEF Waiting
<1>2. StepsAreTaken'
  BY DEF CallsAreOwn, StepsAreTaken, MethodOf
<1>3. OneCallEach'
  BY <1>1 DEF CallsAreOwn, OneCallEach
<1>4. Enabling'
  BY DEF CallsAreOwn, Enabling
<1> QED
  BY <1>2, <1>3, <1>4 DEF CallsAreOwn

LEMMA CallbackKeepsCalls ==
  ASSUME Types, CallsAreOwn, Callback, InNoCallback, network' = network,
         at \notin {"idle", "answering", "dead"}, at' \notin {"idle", "answering", "dead"}
  PROVE  CallsAreOwn'
<1>1. EventThread \in Threads
  BY DEF Threads
<1>2. CASE UNCHANGED <<op, step, made>>
  <2>1. ~Waiting(EventThread)
    BY <1>1, NoCall DEF CallsAreOwn, InNoCallback, MethodOf, Idle, Sending
  <2> QED
    BY <1>2, <2>1, StillKeepsCalls DEF Callback, InNoCallback
<1>3. CASE \E o \in OpsOf[EventThread] : StartsOp(EventThread, o)
  BY <1>1, <1>3, StartKeepsCalls DEF Callback
<1> QED
  BY <1>2, <1>3 DEF Callback

LEMMA EventThreadKeepsCalls ==
  ASSUME Types, CallsAreOwn, EventThreadStep
  PROVE  CallsAreOwn'
<1>1. EventThread \in Threads
  BY DEF Threads
<1>2. at # "answering" => ~Waiting(EventThread) \/ op[EventThread] # Idle
  BY <1>1, NoCall DEF CallsAreOwn, MethodOf, Idle, Sending
<1>3. at \in {"idle", "answering", "dead"} => op[EventThread] = Idle
  BY DEF CallsAreOwn, StepsAreTaken
<1>4. CASE Receive \/ BindingReturns \/ ResponseReceived \/ LoadingEnds \/ HandlersReturn
           \/ OtherEvent
  <2>1. op[EventThread] = Idle /\ at # "answering" /\ UNCHANGED <<op, step, answer, commands, network>>
    BY <1>3, <1>4 DEF Receive, BindingReturns, ResponseReceived, LoadingEnds, HandlersReturn,
         OtherEvent, Handles, InNoCallback, opVars, chromeVars
  <2> QED
    BY <1>2, <2>1, StillKeepsCalls
<1>5. ASSUME NEW l \in Callbacks, RunListener(l) PROVE CallsAreOwn'
  BY <1>5, CallbackKeepsCalls DEF RunListener, chromeVars
<1>6. ASSUME NEW h \in Callbacks, RunHandler(h) PROVE CallsAreOwn'
  <2>1. CASE Callback
    BY <1>6, <2>1, CallbackKeepsCalls DEF RunHandler, chromeVars
  <2>2. CASE UNCHANGED opVars
    BY <1>6, <2>2, StillKeepsCalls DEF RunHandler, opVars, chromeVars
  <2> QED
    BY <1>6, <2>1, <2>2 DEF RunHandler
<1>7. CASE AskInterceptor
  BY <1>7, CallbackKeepsCalls DEF AskInterceptor, Handles, chromeVars
<1>8. CASE CallBinding
  <2>1. CASE at' = "ending" /\ Callback
    BY <1>8, <2>1, CallbackKeepsCalls DEF CallBinding, Handles, chromeVars, Panics
  <2>2. CASE Panics(EventThread, {})
    <3>1. ~Waiting(EventThread)
      BY <1>2, <1>8 DEF CallBinding, Handles, InNoCallback
    <3>2. Ended(EventThread) /\ network' = network
      BY <2>2 DEF Panics, Ended, chromeVars
    <3> QED
      BY <1>1, <3>1, <3>2, EndedKeepsCalls
  <2> QED
    BY <1>8, <2>1, <2>2 DEF CallBinding
<1>9. CASE Decide \/ ContinueWithAuth
  <2>1. PICK m : Sends(EventThread, m, ev.of)
    BY <1>9 DEF Decide, Answers, ContinueWithAuth
  <2>2. op[EventThread] = Idle /\ at' = "answering" /\ UNCHANGED <<op, step, network>>
    BY <1>9 DEF Decide, Answers, ContinueWithAuth, Handles, InNoCallback, chromeVars
  <2>3. ~Waiting(EventThread)
    BY <1>2, <1>9, <2>2 DEF Decide, ContinueWithAuth, Handles
  <2>4. /\ \A i, j \in DOMAIN commands' :
             commands'[i].by = commands'[j].by /\ commands'[i].by # None => i = j
        /\ \A u \in Threads : u # EventThread /\ Waiting(u)' => Waiting(u)
        /\ \A u \in Threads : u # EventThread => answer'[u] = answer[u]
        /\ answer'[EventThread] = "none"
        /\ \A i \in DOMAIN commands' :
             \/ /\ i \in DOMAIN commands /\ commands'[i] = commands[i]
                /\ commands'[i].by # EventThread
             \/ commands'[i].by = EventThread /\ commands'[i].method = m
    BY <1>1, <2>1, <2>3, SentAlone DEF CallsAreOwn
  <2>5. StepsAreTaken'
    BY <2>2 DEF CallsAreOwn, StepsAreTaken, MethodOf
  <2>6. OneCallEach'
    BY <2>2, <2>4 DEF CallsAreOwn, OneCallEach
  <2>7. Enabling'
    BY <2>2, <2>4 DEF CallsAreOwn, Enabling, Idle
  <2> QED
    BY <2>5, <2>6, <2>7 DEF CallsAreOwn
<1>10. CASE Answered
  <2>1. /\ answer[EventThread] # "none" /\ op[EventThread] = Idle /\ at' = "idle"
        /\ UNCHANGED <<op, step, commands, network>>
        /\ answer' = [answer EXCEPT ![EventThread] = "none"]
    BY <1>3, <1>10 DEF Answered, EndsEvent, chromeVars
  <2>2. ~Waiting(EventThread)
    BY <1>1, <2>1, NoCall DEF CallsAreOwn
  <2>3. \A u \in Threads : u # EventThread => answer'[u] = answer[u]
    BY <2>1 DEF Types, TypeOK
  <2>4. \A u \in Threads : Waiting(u)' = Waiting(u)
    BY <2>1 DEF Waiting
  <2>5. StepsAreTaken'
    BY <2>1 DEF CallsAreOwn, StepsAreTaken, MethodOf
  <2>6. OneCallEach'
    BY <2>1, <2>2, <2>3, <2>4 DEF CallsAreOwn, OneCallEach
  <2>7. Enabling'
    BY <2>1, <2>3 DEF CallsAreOwn, Enabling, Idle
  <2> QED
    BY <2>5, <2>6, <2>7 DEF CallsAreOwn
<1> QED
  BY <1>4, <1>5, <1>6, <1>7, <1>8, <1>9, <1>10 DEF EventThreadStep

LEMMA ExpiryKeepsCalls ==
  ASSUME Types, CallsAreOwn, NEW t \in Threads, CallExpires(t)
  PROVE  CallsAreOwn'
<1>1. /\ UNCHANGED <<op, step, at, network>> /\ Waiting(t)
      /\ answer'[t] = "error" /\ \A u \in Threads : u # t => answer'[u] = answer[u]
  BY DEF CallExpires, threadVars, chromeVars, Types, TypeOK
<1>2. ASSUME NEW i \in DOMAIN commands'
      PROVE  /\ i \in DOMAIN commands
             /\ \/ commands[i].by # t /\ commands'[i] = commands[i]
                \/ commands[i].by = t /\ commands'[i].by = None
  <2>1. commands[i].by = t => [commands[i] EXCEPT !.by = None].by = None
    <3>1. commands[i] \in CommandSet
      BY DEF Types, CallExpires
    <3> QED
      BY <3>1 DEF CommandSet
  <2> QED
    BY <2>1 DEF CallExpires
<1>3. \A u \in Threads : Waiting(u)' => u # t /\ Waiting(u)
  BY <1>2, NoneIsNoThread DEF Waiting
<1>4. StepsAreTaken'
  BY <1>1 DEF CallsAreOwn, StepsAreTaken, MethodOf
<1>5. OneCallEach'
  BY <1>1, <1>2, <1>3 DEF CallsAreOwn, OneCallEach
<1>6. Enabling'
  <2>1. ASSUME NEW u \in Threads, op'[u].do = "add"
        PROVE  /\ \A i \in DOMAIN commands' :
                    commands'[i].by = u => commands'[i].method = "enable"
               /\ step'[u] = "first" /\ answer'[u] = "ok" => network'
               /\ step'[u] = "last" => network'
    BY <1>1, <1>2, <2>1, NoneIsNoThread DEF CallsAreOwn, Enabling
  <2> QED
    BY <2>1 DEF Enabling
<1> QED
  BY <1>4, <1>5, <1>6 DEF CallsAreOwn

LEMMA ExecuteKeepsCalls ==
  ASSUME Types, CallsAreOwn, Execute
  PROVE  CallsAreOwn'
<1>1. PICK i \in DOMAIN commands, a \in {"ok", "error"} :
        /\ Effect(commands[i], a)
        /\ commands' = RemoveAt(commands, i)
        /\ answer' = IF commands[i].by = None THEN answer
                     ELSE [answer EXCEPT ![commands[i].by] = a]
        /\ UNCHANGED <<op, step, at>>
  BY DEF Execute, threadVars
<1>2. /\ network => network'
      /\ commands[i].method = "enable" => network'
  BY <1>1 DEF Effect, Decisions
<1>3. \A u \in Threads : /\ u # commands[i].by => answer'[u] = answer[u]
                         /\ u = commands[i].by => answer'[u] = a
  BY <1>1, NoneIsNoThread DEF Types, TypeOK
<1>4. \A j \in DOMAIN commands' : \E k \in DOMAIN commands :
        /\ commands'[j] = commands[k]
        /\ j \in Nat /\ k = IF j < i THEN j ELSE j + 1
  BY <1>1, RemovalKeepsOthers DEF Types
<1>5. i \in Nat
  BY DEF Types
<1>6. ASSUME NEW j \in DOMAIN commands', NEW l \in DOMAIN commands',
             commands'[j].by = commands'[l].by, commands'[j].by # None
      PROVE  j = l
  BY <1>4, <1>5, <1>6 DEF CallsAreOwn, OneCallEach
<1>7. ASSUME NEW j \in DOMAIN commands', commands'[j].by # None
      PROVE  \E k \in DOMAIN commands : commands'[j] = commands[k] /\ commands[k].by # commands[i].by
  BY <1>4, <1>5, <1>7 DEF CallsAreOwn, OneCallEach
<1>8. \A u \in Threads : Waiting(u)' => Waiting(u) /\ u # commands[i].by
  BY <1>7, NoneIsNoThread DEF Waiting
<1>9. StepsAreTaken'
  BY <1>1 DEF CallsAreOwn, StepsAreTaken, MethodOf
<1>10. OneCallEach'
  BY <1>1, <1>3, <1>6, <1>8 DEF CallsAreOwn, OneCallEach
<1>11. Enabling'
  <2>1. ASSUME NEW u \in Threads, op'[u].do = "add"
        PROVE  /\ \A j \in DOMAIN commands' :
                    commands'[j].by = u => commands'[j].method = "enable"
               /\ step'[u] = "first" /\ answer'[u] = "ok" => network'
               /\ step'[u] = "last" => network'
    BY <1>1, <1>2, <1>3, <1>4, <2>1 DEF CallsAreOwn, Enabling
  <2> QED
    BY <2>1 DEF Enabling
<1> QED
  BY <1>9, <1>10, <1>11 DEF CallsAreOwn

LEMMA NextKeepsCalls ==
  ASSUME Types, CallsAreOwn, [Next]_vars
  PROVE  CallsAreOwn'
<1>1. ASSUME NEW t \in Clients, NEW o \in Operations, ClientStarts(t, o)
      PROVE  CallsAreOwn'
  <2>1. t \in Threads /\ t # EventThread
    BY EventThreadIsNoClient DEF Threads
  <2> QED
    BY <1>1, <2>1, StartKeepsCalls DEF ClientStarts, threadVars, chromeVars
<1>2. CASE \/ \E r \in Requests : StartRequest(r) \/ Challenge(r) \/ Respond(r) \/ Finish(r)
           \/ \E n \in Names : PageCalls(n)
           \/ OpenDialog
  BY <1>2, StillKeepsCalls DEF StartRequest, Challenge, Respond, Finish, PageCalls, OpenDialog,
     threadVars, opVars
<1>3. CASE UNCHANGED vars
  BY <1>3, StillKeepsCalls DEF vars, threadVars, opVars, chromeVars
<1> QED
  BY <1>1, <1>2, <1>3, OperationKeepsCalls, ExpiryKeepsCalls, EventThreadKeepsCalls,
     ExecuteKeepsCalls DEF Next

-----------------------------------------------------------------------------
(* Whoever has a response handler has the Network domain on, for good.     *)

NetworkIsOn == registered["responses"] # {} => network

(* What may happen to the registered handlers and what they expect.        *)
LEMMA HandlersChange ==
  ASSUME Types, CallsAreOwn, NEW t \in Threads, Operation(t)
  PROVE  /\ UNCHANGED <<params, ran>>
         /\ registered'["responses"] \subseteq registered["responses"] \/ network
         /\ expected' \subseteq expected
         /\ \A e \in expected' :
              e[1] \in registered["responses"] => e[1] \in registered'["responses"]
<1>0. op[t] \in Operations \cup {Idle}
  BY DEF Types, TypeOK
<1>1. CASE \E m : Panics(t, m)
  BY <1>1 DEF Panics, tabVars
<1>2. CASE AddEventListener(t) \/ RegisterHandling(t)
  <2>1. op[t].in \in Sets
    BY <1>0, <1>2, OperationFields DEF AddEventListener, RegisterHandling, Insert
  <2>2. registered' = [registered EXCEPT ![op[t].in] = @ \cup {op[t].what}]
    BY <1>2 DEF AddEventListener, RegisterHandling, Insert
  <2>3. registered["responses"] \subseteq registered'["responses"]
    BY <2>1, <2>2 DEF Types, TypeOK, Sets
  <2>4. UNCHANGED <<params, ran, expected>> /\ op[t].do = "add"
    BY <1>2 DEF AddEventListener, RegisterHandling, Insert, history
  <2>5. registered'["responses"] = registered["responses"] \/ network
    <3>1. CASE op[t].in = "responses"
      BY <1>2, <2>4, <3>1 DEF AddEventListener, RegisterHandling, MayInsert, CallsAreOwn, Enabling
    <3>2. CASE op[t].in # "responses"
      BY <2>2, <3>2 DEF Types, TypeOK, Sets
    <3> QED
      BY <3>1, <3>2
  <2> QED
    BY <2>3, <2>4, <2>5
<1>3. CASE Delete(t)
  <2>1. op[t].in \in Sets
    BY <1>0, <1>3, OperationFields DEF Delete, Sets
  <2>2. registered'["responses"] \subseteq registered["responses"]
    BY <1>3, <2>1 DEF Delete, Types, TypeOK, Sets
  <2>3. op[t].in # "responses" => registered'["responses"] = registered["responses"]
    BY <1>3, <2>1 DEF Delete, Types, TypeOK, Sets
  <2> QED
    BY <1>3, <2>2, <2>3 DEF Delete
<1>4. CASE EnableRequestInterception(t) \/ Authenticate(t) \/ ExposeFunction(t) \/ Calls(t)
  BY <1>4 DEF EnableRequestInterception, Authenticate, ExposeFunction, Calls, tabVars, history
<1>5. CASE RemoveFunction(t) /\ ~Panics(t, {"bindings"})
  BY <1>5 DEF RemoveFunction
<1> QED
  BY <1>1, <1>2, <1>3, <1>4, <1>5 DEF Operation, LockPanics, RemoveEventListener,
     DeregisterHandling, RemoveFunction

LEMMA NextKeepsNetwork ==
  ASSUME Types, CallsAreOwn, NetworkIsOn, [Next]_vars
  PROVE  NetworkIsOn' /\ (network => network')
<1>1. ASSUME NEW t \in Threads, Operation(t) PROVE NetworkIsOn' /\ (network => network')
  BY <1>1, HandlersChange, OperationLeavesChrome DEF NetworkIsOn
<1>2. ASSUME UNCHANGED registered, network => network' PROVE NetworkIsOn' /\ (network => network')
  BY <1>2 DEF NetworkIsOn
<1>3. ASSUME NEW t \in Threads, CallExpires(t) PROVE NetworkIsOn' /\ (network => network')
  BY <1>2, <1>3 DEF CallExpires, tabVars, chromeVars
<1>4. ASSUME NEW t \in Clients, NEW o \in Operations, ClientStarts(t, o)
      PROVE  NetworkIsOn' /\ (network => network')
  BY <1>2, <1>4 DEF ClientStarts, tabVars, chromeVars
<1>5. CASE EventThreadStep
  BY <1>2, <1>5 DEF EventThreadStep, Receive, RunListener, RunHandler, AskInterceptor, Decide,
     ContinueWithAuth, Answered, CallBinding, BindingReturns, ResponseReceived, LoadingEnds,
     HandlersReturn, OtherEvent, Panics, tabVars, chromeVars
<1>6. CASE \/ \E r \in Requests : StartRequest(r) \/ Challenge(r) \/ Respond(r) \/ Finish(r)
           \/ \E n \in Names : PageCalls(n)
           \/ OpenDialog
  BY <1>2, <1>6 DEF StartRequest, Challenge, Respond, Finish, PageCalls, OpenDialog, tabVars
<1>7. CASE Execute
  BY <1>2, <1>7 DEF Execute, Effect, tabVars
<1>8. CASE UNCHANGED vars
  BY <1>2, <1>8 DEF vars, tabVars, chromeVars
<1> QED
  BY <1>1, <1>3, <1>4, <1>5, <1>6, <1>7, <1>8 DEF Next

-----------------------------------------------------------------------------
(* What is known of a request that a handler h expects: its response, once *)
(* it has come, is in the map, with the event thread or in the channel; it *)
(* is so before its loading finishes; and when that has happened, h has    *)
(* been run, is about to be, or the event is still to be handled.          *)
Is(e, type, r)  == e.type = type /\ e.of = r
Hears(type, r)  == at = "listeners" /\ Is(ev, type, r)
IsSent(type, r)  == \E i \in DOMAIN events : Is(events[i], type, r)

ResponseIsKnown(r) ==
  request[r] \in {"responded", "loaded"} =>
    r \in params \/ Hears("response", r) \/ IsSent("response", r)
InOrder(r) ==
  /\ \A i \in DOMAIN events : Is(events[i], "finished", r) =>
       \/ r \in params \/ Hears("response", r)
       \/ \E j \in DOMAIN events : j < i /\ Is(events[j], "response", r)
  /\ at \in {"listeners", "handlers"} /\ Is(ev, "finished", r) => r \in params
RunsFor(h, r) ==
  request[r] = "loaded" =>
    \/ <<h, r>> \in ran
    \/ IsSent("finished", r) \/ Hears("finished", r)
    \/ at = "handlers" /\ Is(ev, "finished", r) /\ h \in todo
Expects(h, r) == ResponseIsKnown(r) /\ InOrder(r) /\ RunsFor(h, r)

FinishedIsLoaded ==
  /\ \A i \in DOMAIN events : events[i].type = "finished" => request[events[i].of] = "loaded"
  /\ at \notin {"idle", "dead"} /\ ev.type = "finished" => request[ev.of] = "loaded"

Expectations ==
  /\ expected \subseteq registered["responses"] \X Requests
  /\ at # "dead" => \A e \in expected : Expects(e[1], e[2])

(* A step that is about something else: the event thread may go on with an *)
(* event that is neither of a response nor of the end of a loading.        *)
Elsewhere == at \in {"listeners", "handlers"} => ev.type \notin {"response", "finished"}

LEMMA StillExpected ==
  ASSUME NEW h, NEW r, Expects(h, r), UNCHANGED <<events, params, request>>, ran \subseteq ran',
         \/ Elsewhere /\ Elsewhere'
         \/ UNCHANGED <<at, ev>> /\ (at = "handlers" => todo' = todo)
  PROVE  Expects(h, r)'
<1>1. CASE Elsewhere /\ Elsewhere'
  <2>1. /\ ~Hears("response", r) /\ ~Hears("finished", r)
        /\ ~(at \in {"listeners", "handlers"} /\ Is(ev, "finished", r))
        /\ ~Hears("response", r)' /\ ~Hears("finished", r)'
        /\ ~(at' \in {"listeners", "handlers"} /\ Is(ev', "finished", r))
    BY <1>1 DEF Elsewhere, Hears, Is
  <2>2. ResponseIsKnown(r)'
    BY <2>1 DEF Expects, ResponseIsKnown, IsSent, Is
  <2>3. InOrder(r)'
    BY <2>1 DEF Expects, InOrder, Is
  <2>4. RunsFor(h, r)'
    BY <2>1 DEF Expects, RunsFor, IsSent, Is
  <2> QED
    BY <2>2, <2>3, <2>4 DEF Expects
<1>2. CASE UNCHANGED <<at, ev>> /\ (at = "handlers" => todo' = todo)
  BY <1>2 DEF Expects, ResponseIsKnown, InOrder, RunsFor, IsSent, Hears, Is
<1> QED
  BY <1>1, <1>2

(* The event thread takes the first event of the channel.                  *)
LEMMA ReceiveKeepsExpected ==
  ASSUME Types, NEW h, NEW r, Expects(h, r), Receive
  PROVE  Expects(h, r)'
<1>1. /\ at = "idle" /\ at' = "listeners" /\ UNCHANGED <<params, request, ran>>
      /\ events' = Tail(events) /\ ev' = Head(events) /\ events # <<>>
  BY DEF Receive, tabVars, chromeVars, history
<1>2. Len(events) \in Nat /\ DOMAIN events = 1..Len(events) /\ events \in Seq(Event)
  BY DEF Types, TypeOK
<1>3. /\ ev' = events[1] /\ 1 \in DOMAIN events
      /\ \A i \in DOMAIN events' : i \in Nat /\ i + 1 \in DOMAIN events /\ events'[i] = events[i + 1]
      /\ \A i \in DOMAIN events : i = 1 \/ (i - 1 \in DOMAIN events' /\ events'[i - 1] = events[i])
  BY <1>1, <1>2
<1>4. \A type : ~Hears(type, r) /\ (IsSent(type, r) => IsSent(type, r)' \/ Hears(type, r)')
  <2>1. \A type : ~Hears(type, r)
    BY <1>1 DEF Hears
  <2>2. ASSUME NEW type, NEW i \in DOMAIN events, Is(events[i], type, r)
        PROVE  IsSent(type, r)' \/ Hears(type, r)'
    <3>1. CASE i = 1
      BY <1>1, <1>3, <2>2, <3>1 DEF Hears, Is
    <3>2. CASE i - 1 \in DOMAIN events' /\ events'[i - 1] = events[i]
      BY <2>2, <3>2 DEF IsSent, Is
    <3> QED
      BY <1>3, <3>1, <3>2
  <2> QED
    BY <2>1, <2>2 DEF IsSent
<1>5. ResponseIsKnown(r)'
  BY <1>1, <1>4 DEF Expects, ResponseIsKnown
<1>6. RunsFor(h, r)'
  BY <1>1, <1>4 DEF Expects, RunsFor
<1>7. ASSUME NEW i \in DOMAIN events', Is(events'[i], "finished", r)
      PROVE  \/ r \in params' \/ Hears("response", r)'
             \/ \E j \in DOMAIN events' : j < i /\ Is(events'[j], "response", r)
  <2>1. CASE r \in params
    BY <1>1, <2>1
  <2>2. CASE r \notin params
    <3>1. PICK j \in DOMAIN events : j < i + 1 /\ Is(events[j], "response", r)
      BY <1>3, <1>4, <1>7, <2>2 DEF Expects, InOrder
    <3>2. CASE j = 1
      BY <1>1, <1>3, <3>1, <3>2 DEF Hears, Is
    <3>3. CASE j # 1
      <4>1. j - 1 \in DOMAIN events' /\ Is(events'[j - 1], "response", r)
        BY <1>3, <3>1, <3>3
      <4>2. j - 1 < i
        BY <1>2, <1>3, <3>1
      <4> QED
        BY <4>1, <4>2
    <3> QED
      BY <3>2, <3>3
  <2> QED
    BY <2>1, <2>2
<1>8. ASSUME Is(ev', "finished", r) PROVE r \in params'
  <2>1. ~\E j \in DOMAIN events : j < 1
    BY <1>2
  <2> QED
    BY <1>1, <1>3, <1>4, <1>8, <2>1 DEF Expects, InOrder
<1> QED
  BY <1>5, <1>6, <1>7, <1>8 DEF Expects, InOrder

LEMMA EventThreadKeepsExpected ==
  ASSUME Types, Places, NEW h \in registered["responses"], NEW r \in Requests, Expects(h, r),
         EventThreadStep, at' # "dead"
  PROVE  Expects(h, r)'
<1>1. CASE Receive
  BY <1>1, ReceiveKeepsExpected
<1>2. ASSUME NEW l \in Callbacks, RunListener(l) PROVE Expects(h, r)'
  BY <1>2, StillExpected DEF RunListener, tabVars, chromeVars, history
<1>3. CASE AskInterceptor \/ Decide \/ ContinueWithAuth \/ Answered \/ BindingReturns \/ OtherEvent
  <2>1. UNCHANGED <<events, params, request, ran>>
    BY <1>3 DEF AskInterceptor, Decide, ContinueWithAuth, Answered, BindingReturns, OtherEvent,
       tabVars, chromeVars, history
  <2>2. Elsewhere /\ Elsewhere'
    BY <1>3 DEF AskInterceptor, Decide, Answers, ContinueWithAuth, Answered, BindingReturns,
       OtherEvent, Handles, EndsEvent, Elsewhere
  <2> QED
    BY <2>1, <2>2, StillExpected
<1>4. CASE CallBinding
  <2>1. at' = "ending" /\ UNCHANGED <<events, params, request, ran>> /\ ev.type = "binding"
    BY <1>4 DEF CallBinding, Handles, Panics, tabVars, chromeVars, history
  <2>2. Elsewhere /\ Elsewhere'
    BY <2>1 DEF Elsewhere
  <2> QED
    BY <2>1, <2>2, StillExpected
<1>5. CASE ResponseReceived
  <2>1. /\ at = "listeners" /\ at' = "idle" /\ ev.type = "response" /\ params' = params \cup {ev.of}
        /\ UNCHANGED <<events, request, ran>>
    BY <1>5 DEF ResponseReceived, Key, Handles, EndsEvent, chromeVars, history
  <2>2. ResponseIsKnown(r)'
    BY <2>1 DEF Expects, ResponseIsKnown, Hears, IsSent, Is
  <2>3. InOrder(r)'
    BY <2>1 DEF Expects, InOrder, Hears, Is
  <2>4. RunsFor(h, r)'
    BY <2>1 DEF Expects, RunsFor, Hears, IsSent, Is
  <2> QED
    BY <2>2, <2>3, <2>4 DEF Expects
<1>6. CASE LoadingEnds
  <2>1. PICK type \in {"finished", "failed"} :
          Handles(type) /\ todo' = registered[HandlersOf(type)]
    BY <1>6 DEF LoadingEnds
  <2>2. /\ at = "listeners" /\ at' = "handlers" /\ ev.type = type
        /\ UNCHANGED <<events, ev, params, request, ran>>
    BY <1>6, <2>1 DEF LoadingEnds, Handles, tabVars, chromeVars, history
  <2>3. CASE type = "failed"
    <3>1. Elsewhere /\ Elsewhere'
      BY <2>2, <2>3 DEF Elsewhere
    <3> QED
      BY <2>2, <3>1, StillExpected
  <2>4. CASE type = "finished"
    <3>1. h \in todo'
      BY <2>1, <2>4 DEF HandlersOf
    <3>2. ResponseIsKnown(r)' /\ InOrder(r)'
      BY <2>2, <2>4 DEF Expects, ResponseIsKnown, InOrder, Hears, IsSent, Is
    <3>3. RunsFor(h, r)'
      BY <2>2, <2>4, <3>1 DEF Expects, RunsFor, Hears, IsSent, Is
    <3> QED
      BY <3>2, <3>3 DEF Expects
  <2> QED
    BY <2>3, <2>4
<1>7. ASSUME NEW g \in Callbacks, RunHandler(g) PROVE Expects(h, r)'
  <2>1. /\ at = "handlers" /\ UNCHANGED <<at, ev, events, params, request>>
        /\ todo' = todo \ {g} /\ ran \subseteq ran'
        /\ ev.of \in params => <<g, ev.of>> \in ran'
    BY <1>7 DEF RunHandler, tabVars, chromeVars
  <2>2. ResponseIsKnown(r)' /\ InOrder(r)'
    BY <2>1 DEF Expects, ResponseIsKnown, InOrder, Hears, IsSent, Is
  <2>3. RunsFor(h, r)'
    BY <2>1 DEF Expects, RunsFor, InOrder, Hears, IsSent, Is
  <2> QED
    BY <2>2, <2>3 DEF Expects
<1>8. CASE HandlersReturn
  <2>1. /\ at = "handlers" /\ todo = {} /\ at' = "idle"
        /\ UNCHANGED <<events, params, request, ran>>
    BY <1>8 DEF HandlersReturn, EndsEvent, tabVars, chromeVars, history
  <2> QED
    BY <2>1 DEF Expects, ResponseIsKnown, InOrder, RunsFor, Hears, IsSent, Is
<1> QED
  BY <1>1, <1>2, <1>3, <1>4, <1>5, <1>6, <1>7, <1>8 DEF EventThreadStep

(* What Chrome does to the requests and what it says of them.              *)
Responds(r) == request'[r] = "responded" => request[r] = "responded" \/ SaysIf(network, "response", r)
Loads(r) ==
  /\ request'[r] = "loaded" =>
       request[r] = "loaded" \/ (request[r] = "responded" /\ SaysIf(network, "finished", r))
  /\ request[r] = "loaded" => request'[r] = "loaded"
SaysNoMore ==
  \/ UNCHANGED events
  \/ \E type, x : /\ Says(type, x)
                  /\ type = "finished" => request[x] = "responded" /\ request'[x] = "loaded"
Progresses == SaysNoMore /\ \A r \in Requests : Responds(r) /\ Loads(r)

LEMMA PageProgresses ==
  ASSUME Types,
         \/ \E r \in Requests : StartRequest(r) \/ Challenge(r) \/ Respond(r) \/ Finish(r)
         \/ \E n \in Names : PageCalls(n)
         \/ OpenDialog
  PROVE  Progresses
<1>1. ASSUME NEW r \in Requests, StartRequest(r) \/ Challenge(r) \/ Respond(r) \/ Finish(r)
      PROVE  Progresses
  <2>1. \A q \in Requests : q # r => request'[q] = request[q]
    BY <1>1 DEF StartRequest, Challenge, Respond, Finish, Becomes, Types, TypeOK
  <2>2. Responds(r) /\ Loads(r)
    BY <1>1 DEF StartRequest, Challenge, Respond, Finish, Becomes, Responds, Loads, Types, TypeOK
  <2>3. SaysNoMore
    BY <1>1 DEF StartRequest, Challenge, Respond, Finish, Becomes, SaysIf, SaysNoMore, Types, TypeOK
  <2> QED
    BY <2>1, <2>2, <2>3 DEF Progresses, Responds, Loads
<1>2. ASSUME NEW n \in Names, PageCalls(n) PROVE Progresses
  BY <1>2 DEF PageCalls, Progresses, Responds, Loads, SaysNoMore
<1>3. CASE OpenDialog
  BY <1>3 DEF OpenDialog, Progresses, Responds, Loads, SaysNoMore
<1> QED
  BY <1>1, <1>2, <1>3

LEMMA ExecuteProgresses ==
  ASSUME Types, Execute
  PROVE  Progresses
<1>1. PICK i \in DOMAIN commands, a \in {"ok", "error"} : Effect(commands[i], a)
  BY DEF Execute
<1>2. ASSUME NEW q \in Requests
      PROVE  /\ request'[q] \in {"responded", "loaded"} => request'[q] = request[q]
             /\ request[q] = "loaded" => request'[q] = "loaded"
  BY <1>1 DEF Effect, Becomes, Types, TypeOK
<1>3. SaysNoMore
  BY <1>1 DEF Effect, SaysIf, SaysNoMore
<1> QED
  BY <1>2, <1>3 DEF Progresses, Responds, Loads

(* What has been said stays in the channel, and one event comes after it.  *)
LEMMA ChromeAppends ==
  ASSUME Types, SaysNoMore
  PROVE  /\ DOMAIN events \subseteq DOMAIN events'
         /\ \A i \in DOMAIN events : events'[i] = events[i]
         /\ \A i \in DOMAIN events' : i \notin DOMAIN events =>
              /\ \A j \in DOMAIN events : j < i
              /\ events'[i].type = "finished" =>
                   request[events'[i].of] = "responded" /\ request'[events'[i].of] = "loaded"
<1>1. CASE UNCHANGED events
  BY <1>1
<1>2. ASSUME NEW type, NEW x, Says(type, x),
             type = "finished" => request[x] = "responded" /\ request'[x] = "loaded"
      PROVE  /\ DOMAIN events \subseteq DOMAIN events'
             /\ \A i \in DOMAIN events : events'[i] = events[i]
             /\ \A i \in DOMAIN events' : i \notin DOMAIN events =>
                  /\ \A j \in DOMAIN events : j < i
                  /\ events'[i].type = "finished" =>
                       request[events'[i].of] = "responded" /\ request'[events'[i].of] = "loaded"
  <2> DEFINE e == [type |-> type, of |-> x]
  <2>1. e.type = type /\ e.of = x
    OBVIOUS
  <2>2. events' = Append(events, e) /\ events \in Seq(Event)
    BY <1>2 DEF Says, Types, TypeOK
  <2> HIDE DEF e
  <2>3. /\ Len(events) \in Nat /\ DOMAIN events = 1..Len(events)
        /\ DOMAIN events' = 1..Len(events) + 1
        /\ \A i \in 1..Len(events) : events'[i] = events[i]
        /\ events'[Len(events) + 1] = e
    BY <2>2
  <2>4. ASSUME NEW i \in DOMAIN events', i \notin DOMAIN events
        PROVE  i = Len(events) + 1 /\ \A j \in DOMAIN events : j < i
    BY <2>3, <2>4
  <2> QED
    BY <1>2, <2>1, <2>3, <2>4
<1> QED
  BY <1>1, <1>2 DEF SaysNoMore

(* What is said is in the channel.                                         *)
LEMMA ChromeSends ==
  ASSUME Types, NEW type, NEW x, Says(type, x)
  PROVE  IsSent(type, x)'
<1> DEFINE e == [type |-> type, of |-> x]
<1>1. Is(e, type, x)
  BY DEF Is
<1>2. events' = Append(events, e) /\ events \in Seq(Event)
  BY DEF Says, Types, TypeOK
<1> HIDE DEF e
<1>3. Len(events) + 1 \in DOMAIN events' /\ events'[Len(events) + 1] = e
  BY <1>2
<1> QED
  BY <1>1, <1>3 DEF IsSent

LEMMA ChromeKeepsExpected ==
  ASSUME Types, NEW h, NEW r \in Requests, Expects(h, r), network, Progresses,
         UNCHANGED <<at, ev, todo, params, ran>>
  PROVE  Expects(h, r)'
<1>1. Responds(r) /\ Loads(r) /\ SaysNoMore
  BY DEF Progresses
<1>2. /\ DOMAIN events \subseteq DOMAIN events'
      /\ \A i \in DOMAIN events : events'[i] = events[i]
      /\ \A i \in DOMAIN events' : i \notin DOMAIN events =>
           /\ \A j \in DOMAIN events : j < i
           /\ events'[i].type = "finished" =>
                request[events'[i].of] = "responded" /\ request'[events'[i].of] = "loaded"
  BY <1>1, ChromeAppends
<1>3. /\ \A type : IsSent(type, r) => IsSent(type, r)'
      /\ \A type : Hears(type, r) = Hears(type, r)'
  BY <1>2 DEF IsSent, Hears, Is
<1>4. ResponseIsKnown(r)'
  <2>1. CASE request[r] \in {"responded", "loaded"}
    BY <1>3, <2>1 DEF Expects, ResponseIsKnown
  <2>2. CASE request[r] \notin {"responded", "loaded"} /\ request'[r] \in {"responded", "loaded"}
    BY <1>1, <2>2, ChromeSends DEF Responds, Loads, SaysIf, ResponseIsKnown
  <2> QED
    BY <2>1, <2>2 DEF ResponseIsKnown
<1>5. InOrder(r)'
  <2>1. ASSUME NEW i \in DOMAIN events', Is(events'[i], "finished", r)
        PROVE  \/ r \in params' \/ Hears("response", r)'
               \/ \E j \in DOMAIN events' : j < i /\ Is(events'[j], "response", r)
    <3>1. CASE i \in DOMAIN events
      BY <1>2, <1>3, <2>1, <3>1 DEF Expects, InOrder
    <3>2. CASE i \notin DOMAIN events
      <4>1. request[r] = "responded" /\ \A j \in DOMAIN events : j < i
        BY <1>2, <2>1, <3>2 DEF Is
      <4> QED
        BY <1>2, <1>3, <4>1 DEF Expects, ResponseIsKnown, IsSent
    <3> QED
      BY <3>1, <3>2
  <2> QED
    BY <2>1 DEF Expects, InOrder, Is
<1>6. RunsFor(h, r)'
  <2>1. CASE request[r] = "loaded"
    BY <1>3, <2>1 DEF Expects, RunsFor, Is
  <2>2. CASE request[r] # "loaded" /\ request'[r] = "loaded"
    BY <1>1, <2>2, ChromeSends DEF Loads, SaysIf, RunsFor
  <2> QED
    BY <2>1, <2>2 DEF RunsFor
<1> QED
  BY <1>4, <1>5, <1>6 DEF Expects

LEMMA ChromeKeepsFinished ==
  ASSUME Types, Places, FinishedIsLoaded, Progresses, UNCHANGED <<at, ev>>
  PROVE  FinishedIsLoaded'
<1>1. ASSUME NEW e \in Event, e.type = "finished", request[e.of] = "loaded"
      PROVE  request'[e.of] = "loaded"
  <2>1. e.of \in Requests
    BY <1>1 DEF Event
  <2> QED
    BY <1>1, <2>1 DEF Progresses, Loads
<1>2. ASSUME NEW i \in DOMAIN events', events'[i].type = "finished"
      PROVE  request'[events'[i].of] = "loaded"
  <2>1. i \in DOMAIN events => events[i] \in Event
    BY DEF Types, TypeOK
  <2> QED
    BY <1>1, <1>2, <2>1, ChromeAppends DEF Progresses, FinishedIsLoaded
<1>3. at' \notin {"idle", "dead"} /\ ev'.type = "finished" => request'[ev'.of] = "loaded"
  BY <1>1 DEF FinishedIsLoaded, Places
<1> QED
  BY <1>2, <1>3 DEF FinishedIsLoaded

LEMMA NextKeepsFinished ==
  ASSUME Types, Places, FinishedIsLoaded, [Next]_vars
  PROVE  FinishedIsLoaded'
<1>1. ASSUME UNCHANGED <<events, request>>,
             UNCHANGED <<at, ev>> \/ at' \in {"idle", "dead"} \/ (ev' = ev /\ at \notin {"idle", "dead"})
      PROVE  FinishedIsLoaded'
  BY <1>1 DEF FinishedIsLoaded
<1>2. ASSUME NEW t \in Threads, Operation(t) PROVE FinishedIsLoaded'
  BY <1>1, <1>2, OperationLeavesThread, OperationLeavesChrome
<1>3. ASSUME NEW t \in Threads, CallExpires(t) PROVE FinishedIsLoaded'
  BY <1>1, <1>3 DEF CallExpires, threadVars, chromeVars
<1>4. ASSUME NEW t \in Clients, NEW o \in Operations, ClientStarts(t, o) PROVE FinishedIsLoaded'
  BY <1>1, <1>4 DEF ClientStarts, threadVars, chromeVars
<1>5. CASE Receive
  <2>1. /\ Head(events) = events[1] /\ 1 \in DOMAIN events
        /\ \A i \in DOMAIN Tail(events) : i + 1 \in DOMAIN events /\ Tail(events)[i] = events[i + 1]
    BY <1>5 DEF Receive, Types, TypeOK
  <2> QED
    BY <1>5, <2>1 DEF Receive, FinishedIsLoaded, chromeVars
<1>6. CASE EventThreadStep /\ ~Receive
  <2>1. UNCHANGED <<events, request>>
    BY <1>6 DEF EventThreadStep, RunListener, RunHandler, AskInterceptor, Decide, ContinueWithAuth,
       Answered, CallBinding, Panics, BindingReturns, ResponseReceived, LoadingEnds,
       HandlersReturn, OtherEvent, chromeVars
  <2>2. at' \in {"idle", "dead"} \/ (ev' = ev /\ at \notin {"idle", "dead"})
    BY <1>6 DEF EventThreadStep, RunListener, RunHandler, AskInterceptor, Decide, Answers,
       ContinueWithAuth, Answered, CallBinding, Panics, BindingReturns, ResponseReceived,
       LoadingEnds, HandlersReturn, OtherEvent, EndsEvent, Handles
  <2> QED
    BY <1>1, <2>1, <2>2
<1>7. CASE \/ \E r \in Requests : StartRequest(r) \/ Challenge(r) \/ Respond(r) \/ Finish(r)
           \/ \E n \in Names : PageCalls(n)
           \/ OpenDialog
  <2>1. UNCHANGED <<at, ev>>
    BY <1>7 DEF StartRequest, Challenge, Respond, Finish, PageCalls, OpenDialog, threadVars
  <2> QED
    BY <1>7, <2>1, PageProgresses, ChromeKeepsFinished
<1>8. CASE Execute
  BY <1>8, ExecuteProgresses, ChromeKeepsFinished DEF Execute, threadVars
<1>9. CASE UNCHANGED vars
  BY <1>1, <1>9 DEF vars, threadVars, chromeVars
<1> QED
  BY <1>2, <1>3, <1>4, <1>5, <1>6, <1>7, <1>8, <1>9 DEF Next

LEMMA NextKeepsExpectations ==
  ASSUME Types, Places, CallsAreOwn, NetworkIsOn, FinishedIsLoaded, Expectations, [Next]_vars
  PROVE  Expectations'
<1>1. ASSUME UNCHANGED <<registered, expected>>,
             \A e \in expected : e[1] \in registered["responses"] /\ e[2] \in Requests
                                   /\ Expects(e[1], e[2]) /\ at' # "dead" => Expects(e[1], e[2])',
             at' # "dead" => at # "dead"
      PROVE  Expectations'
  <2>1. \A e \in expected : e[1] \in registered["responses"] /\ e[2] \in Requests
    BY DEF Expectations
  <2> QED
    BY <1>1, <2>1 DEF Expectations
<1>2. ASSUME UNCHANGED <<registered, expected, events, params, request, ran, at, ev, todo>>
      PROVE  Expectations'
  BY <1>1, <1>2, StillExpected
<1>3. ASSUME NEW t \in Threads, Operation(t) PROVE Expectations'
  <2>1. /\ UNCHANGED <<events, params, request, ran, ev, todo>>
        /\ at' = at \/ at' = "dead"
    BY <1>3, OperationLeavesThread, OperationLeavesChrome, HandlersChange
  <2>2. /\ expected' \subseteq expected
        /\ \A e \in expected' :
             e[1] \in registered["responses"] => e[1] \in registered'["responses"]
    BY <1>3, HandlersChange
  <2>3. expected' \subseteq registered'["responses"] \X Requests
    BY <2>2 DEF Expectations
  <2>4. ASSUME at' # "dead", NEW e \in expected' PROVE Expects(e[1], e[2])'
    <3>1. Expects(e[1], e[2]) /\ at' = at
      BY <2>1, <2>2, <2>4 DEF Expectations
    <3> QED
      BY <2>1, <3>1, StillExpected
  <2> QED
    BY <2>3, <2>4 DEF Expectations
<1>4. ASSUME NEW t \in Threads, CallExpires(t) PROVE Expectations'
  BY <1>2, <1>4 DEF CallExpires, threadVars, tabVars, chromeVars, history
<1>5. ASSUME NEW t \in Clients, NEW o \in Operations, ClientStarts(t, o) PROVE Expectations'
  BY <1>2, <1>5 DEF ClientStarts, threadVars, tabVars, chromeVars, history
<1>6. CASE EventThreadStep
  <2>1. UNCHANGED <<registered, expected>> /\ at # "dead"
    BY <1>6 DEF EventThreadStep, Receive, RunListener, RunHandler, AskInterceptor, Decide,
       ContinueWithAuth, Answered, CallBinding, Panics, BindingReturns, ResponseReceived,
       LoadingEnds, HandlersReturn, OtherEvent, Handles, tabVars, history
  <2> QED
    BY <1>1, <1>6, <2>1, EventThreadKeepsExpected
<1>7. ASSUME UNCHANGED <<registered, expected, at, ev, todo, params, ran>>, Progresses
      PROVE  Expectations'
  <2>1. \A e \in expected : e[1] \in registered["responses"] => network
    BY DEF NetworkIsOn
  <2> QED
    BY <1>1, <1>7, <2>1, ChromeKeepsExpected
<1>8. ASSUME NEW r \in Requests, StartRequest(r) PROVE Expectations'
  <2>1. /\ UNCHANGED <<registered, at, ev, todo, params, ran, network>> /\ Progresses
        /\ request[r] = "new" /\ request'[r] \in {"running", "paused"}
        /\ expected' = expected \cup (registered["responses"] \X {r})
        /\ SaysIf(fetch # "off", "paused", r)
    <3>1. Progresses
      BY <1>8, PageProgresses
    <3> QED
      BY <1>8, <3>1 DEF StartRequest, Becomes, threadVars, tabVars, Types, TypeOK
  <2>2. expected' \subseteq registered'["responses"] \X Requests
    BY <2>1 DEF Expectations
  <2>3. ASSUME at' # "dead", NEW e \in expected PROVE Expects(e[1], e[2])'
    <3>1. Expects(e[1], e[2]) /\ e[2] \in Requests /\ network
      BY <2>1, <2>3 DEF Expectations, NetworkIsOn
    <3> QED
      BY <2>1, <3>1, ChromeKeepsExpected
  <2>4. ASSUME NEW h PROVE Expects(h, r)'
    <3>1. FinishedIsLoaded'
      BY <2>1, ChromeKeepsFinished
    <3>2. /\ \A i \in DOMAIN events' : ~Is(events'[i], "finished", r)
          /\ at' \in {"listeners", "handlers"} => ~Is(ev', "finished", r)
      BY <2>1, <3>1 DEF FinishedIsLoaded, Is
    <3> QED
      BY <2>1, <3>2 DEF Expects, ResponseIsKnown, InOrder, RunsFor
  <2> QED
    BY <2>1, <2>2, <2>3, <2>4 DEF Expectations
<1>9. CASE \/ \E r \in Requests : Challenge(r) \/ Respond(r) \/ Finish(r)
           \/ \E n \in Names : PageCalls(n)
           \/ OpenDialog
  <2>1. Progresses
    BY <1>9, PageProgresses
  <2> QED
    BY <1>7, <1>9, <2>1 DEF Challenge, Respond, Finish, PageCalls, OpenDialog, threadVars, tabVars,
       history
<1>10. CASE Execute
  BY <1>7, <1>10, ExecuteProgresses DEF Execute, threadVars, tabVars, history
<1>11. CASE UNCHANGED vars
  BY <1>2, <1>11 DEF vars, threadVars, tabVars, chromeVars, history
<1> QED
  BY <1>3, <1>4, <1>5, <1>6, <1>8, <1>9, <1>10, <1>11 DEF Next

-----------------------------------------------------------------------------
(* The invariant, and what follows from it.                                *)

Handling == CallsAreOwn /\ NetworkIsOn /\ FinishedIsLoaded /\ Expectations
IInv == Types /\ Places /\ RunsWhatIsRegistered /\ UntilUnexposed /\ Handling

LEMMA HandlingHoldsInitially == Init => Handling
<1> SUFFICES ASSUME Init PROVE Handling
  OBVIOUS
<1>1. at = "idle" /\ events = <<>> /\ commands = <<>> /\ expected = {}
      /\ registered["responses"] = {} /\ op = [t \in Threads |-> Idle]
      /\ step = [t \in Threads |-> "start"] /\ EventThread \in Threads
  BY DEF Init, Sets, Threads
<1>2. DOMAIN events = {} /\ DOMAIN commands = {}
  BY <1>1
<1>3. CallsAreOwn
  BY <1>1, <1>2 DEF CallsAreOwn, StepsAreTaken, OneCallEach, Enabling, Waiting, Idle
<1> QED
  BY <1>1, <1>2, <1>3 DEF Handling, NetworkIsOn, FinishedIsLoaded, Expectations

LEMMA InvariantHolds == Spec => []IInv
<1>1. Init => IInv
  <2>1. Init => RunsWhatIsRegistered /\ UntilUnexposed
    BY DEF Init, RunsWhatIsRegistered, UntilUnexposed, NamesAreKnown, NothingPanics
  <2> QED
    BY <2>1, TypesHoldInitially, HandlingHoldsInitially DEF IInv
<1>2. IInv /\ [Next]_vars => IInv'
  BY NextKeepsTypes, NextKeepsRunning, NextKeepsKnown, NextKeepsCalls, NextKeepsNetwork,
     NextKeepsFinished, NextKeepsExpectations DEF IInv, Handling
<1> QED
  BY <1>1, <1>2, PTL DEF Spec

(* Every variable of a tab keeps its type.                                 *)
THEOREM TypesAreKept == Spec => []TypeOK
BY InvariantHolds, PTL DEF IInv, Types

(* Once the operation that removes a listener or handler has returned, the *)
(* event thread does not call it any more: not in the middle of the event  *)
(* either, whose callbacks it runs under the mutex that removal needs.     *)
THEOREM RemovedAreSilent == Spec => []RemovedStaysSilent
<1>1. IInv => RemovedStaysSilent
  BY DEF IInv, RunsWhatIsRegistered, RunsUnderLock, RemovedStaysSilent
<1> QED
  BY <1>1, InvariantHolds, PTL

(* The event thread does not die of a call of an exposed function, also if *)
(* exposing it has failed or timed out halfway, unless remove_function has *)
(* been called.                                                            *)
THEOREM ExposingIsSafe == Spec => []ExposedFunctionsAreSafe
<1>1. IInv => ExposedFunctionsAreSafe
  BY DEF IInv, UntilUnexposed, NothingPanics, ExposedFunctionsAreSafe
<1> QED
  BY <1>1, InvariantHolds, PTL

(* A response handler that was registered when a request started, and has  *)
(* not been removed, has been run for it when the request has been loaded  *)
(* and its events have been handled: the Network domain was enabled before *)
(* the handler was registered, and the response came before the end.       *)
THEOREM HandlersSeeResponses == Spec => []EveryHandlerSeesTheResponse
<1>1. IInv => EveryHandlerSeesTheResponse
  <2> SUFFICES ASSUME IInv, NEW e \in expected, request[e[2]] = "loaded", Handled(e[2])
               PROVE  e \in ran
    BY DEF EveryHandlerSeesTheResponse
  <2>1. RunsFor(e[1], e[2]) /\ e = <<e[1], e[2]>>
    BY DEF IInv, Handling, Expectations, Expects, Handled
  <2>2. ~IsSent("finished", e[2])
    BY DEF Handled, IsSent, Is
  <2>3. at \in {"listeners", "handlers"} => ~Is(ev, "finished", e[2])
    BY NoneIsNoEvent DEF IInv, Places, Handled, Is
  <2> QED
    BY <2>1, <2>2, <2>3 DEF RunsFor, Hears
<1> QED
  BY <1>1, InvariantHolds, PTL
=============================================================================
