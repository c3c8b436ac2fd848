---------------------------- MODULE BrowserTabs ----------------------------
(***************************************************************************)
(* The browser's tab list: browser/mod.rs and Tab::new.  Chrome announces  *)
(* targets as browser-level events.  The browser's event thread attaches   *)
(* to every new page and keeps the list; new_tab waits for its target to   *)
(* be listed; register_missing_tabs fills the list from GetTargets while   *)
(* it holds the list's mutex.                                              *)
(*                                                                         *)
(* The connection is abstract: a call succeeds or fails as a whole at the  *)
(* moment Chrome handles it, events arrive in order.  An event for which   *)
(* nobody listens any more ends the connection, as Transport's             *)
(* LoopRoutesEvent does.  A target's url is the number of its changes;     *)
(* DevtoolsUrls says which of whose urls begin with devtools://.           *)
(***************************************************************************)
EXTENDS Naturals, Sequences, SequencesExt

CONSTANTS
  Pages,        \* targets of type "page"
  Others,       \* targets of other types (workers, frames)
  Foreign,      \* targets to which some other client is attached
  Openers,      \* application threads that call new_tab, once each
  Registrars,   \* threads that call register_missing_tabs, once each
  None,
  MaxChanges,   \* bound: changes of a target
  DevtoolsUrls, \* <<target, url>>: a url that begins with devtools://
  WaitsExpire   \* may a call to Chrome, or new_tab's Wait, run out?

Targets == Pages \cup Others
Threads == Openers \cup Registrars

ASSUME TypesAreDisjoint == Pages \cap Others = {}
ASSUME ForeignTargets == Foreign \subseteq Targets
ASSUME RolesAreDisjoint == Openers \cap Registrars = {}
ASSUME NoneIsNoTarget == None \notin Targets
ASSUME LockNames == {"free", "poisoned"} \cap Registrars = {}
ASSUME BoundIsNat == MaxChanges \in Nat
ASSUME DevtoolsAreUrls == DevtoolsUrls \subseteq Targets \X (0..MaxChanges)
ASSUME FlagIsBoolean == WaitsExpire \in BOOLEAN

VARIABLES
  live,     \* Chrome: the targets that exist
  opened,   \* Chrome: those that ever did
  url,      \* Chrome: the url of each target
  attached, \* Chrome: targets with a session of ours
  conn,     \* is the connection "up" or "down"?
  events,   \* the browser listener's channel
  stop,     \* loop_shutdown_tx has been used
  evt,      \* where the event thread is
  fresh,    \* TargetInfo the event thread makes a tab of
  tabs,     \* BrowserInner.tabs
  lock,     \* its mutex: "free", "poisoned" or who holds it
  pc,       \* where the application threads are
  wanted,   \* the target_id each opener waits for
  missing,  \* target_infos each registrar has still to look at
  previous  \* previous_target_id

chromeVars == <<live, opened, url, attached>>
evtVars    == <<evt, fresh>>
listVars   == <<tabs, lock>>
threadVars == <<pc, wanted, missing, previous>>
vars == <<chromeVars, conn, events, stop, evtVars, listVars, threadVars>>

Info  == [target : Targets, url : 0..MaxChanges, attached : BOOLEAN]
Tab   == [target : Targets, url : 0..MaxChanges]
Event == [type : {"created", "changed"}, info : Info]
         \cup [type : {"destroyed"}, target : Targets]

InfoOf(t) == [target |-> t, url |-> url[t], attached |-> t \in attached \cup Foreign]
TabOf(info) == [target |-> info.target, url |-> info.url]

Position(t) == SelectInSeq(tabs, LAMBDA tab : tab.target = t)
Listed(t) == Position(t) # 0

EvtEnded == evt \in {"done", "panicked"}
Working == {"each", "enable"}   \* register_missing_tabs, with the mutex

(* The guard of the list is the registrar inside its section: no two of    *)
(* them are, and none leaves without unlocking.                            *)
TypeOK ==
  /\ live \subseteq opened /\ opened \subseteq Targets
  /\ url \in [Targets -> 0..MaxChanges]
  /\ attached \subseteq opened
  /\ conn \in {"up", "down"}
  /\ events \in Seq(Event)
  /\ stop \in BOOLEAN
  /\ evt \in {"check", "recv", "enable", "push", "done", "panicked"}
  /\ fresh \in Info \cup {None}
  /\ tabs \in Seq(Tab)
  /\ lock \in {"free", "poisoned"} \cup Registrars
  /\ pc \in [Threads -> {"idle", "poll", "lock", "failed", "each", "enable",
                         "done", "panicked"}]
  /\ wanted \in [Openers -> Targets \cup {None}]
  /\ missing \in [Registrars -> Seq(Info)]
  /\ previous \in [Registrars -> Targets \cup {None}]
  /\ \A r \in Registrars : lock = r <=> pc[r] \in Working

Init ==
  /\ live = {} /\ opened = {} /\ attached = {}
  /\ url = [t \in Targets |-> 0]
  /\ conn = "up"
  /\ events = <<>>
  /\ stop = FALSE
  /\ evt = "check" /\ fresh = None
  /\ tabs = <<>> /\ lock = "free"
  /\ pc = [k \in Threads |-> "idle"]
  /\ wanted = [o \in Openers |-> None]
  /\ missing = [r \in Registrars |-> <<>>]
  /\ previous = [r \in Registrars |-> None]

-----------------------------------------------------------------------------
(* Chrome.                                                                 *)

(* The transport routes an event; without a receiver its loop breaks.      *)
Announce(event) ==
  \/ ~EvtEnded /\ events' = Append(events, event) /\ UNCHANGED conn
  \/ EvtEnded /\ conn' = "down" /\ UNCHANGED events

NotChrome == UNCHANGED <<stop, evtVars, listVars>>

Opens(t) ==
  /\ conn = "up" /\ t \notin opened
  /\ opened' = opened \cup {t} /\ live' = live \cup {t}
  /\ Announce([type |-> "created", info |-> InfoOf(t)])
  /\ UNCHANGED <<url, attached>> /\ NotChrome

TargetOpens(t) == Opens(t) /\ UNCHANGED threadVars

TargetCloses(t) ==
  /\ conn = "up" /\ t \in live
  /\ live' = live \ {t} /\ attached' = attached \ {t}
  /\ Announce([type |-> "destroyed", target |-> t])
  /\ UNCHANGED <<opened, url, threadVars>> /\ NotChrome

TargetChanges(t) ==
  /\ conn = "up" /\ t \in live /\ url[t] < MaxChanges
  /\ url' = [url EXCEPT ![t] = @ + 1]
  /\ Announce([type |-> "changed", info |-> [InfoOf(t) EXCEPT !.url = @ + 1]])
  /\ UNCHANGED <<live, opened, attached, threadVars>> /\ NotChrome

(* The other ends of the connection: Chrome exits, an idle timeout, the    *)
(* transport's own shutdown.                                               *)
ConnectionEnds ==
  /\ conn = "up" /\ conn' = "down"
  /\ UNCHANGED <<chromeVars, events, threadVars>> /\ NotChrome

(* A call about target t returns: ok, or an error.                         *)
Returns(t, ok) ==
  IF ok THEN conn = "up" /\ t \in live
        ELSE conn = "down" \/ t \notin live \/ WaitsExpire

(* Tab::new's AttachToTarget; one that runs out may still have attached.   *)
Attaches(t, ok) ==
  /\ Returns(t, ok)
  /\ attached' \in {attached} \cup {attached \cup {u} : u \in {t} \cap live}
  /\ ok => t \in attached'

-----------------------------------------------------------------------------
(* The event thread: handle_browser_level_events.                          *)

NotEvt == UNCHANGED <<live, opened, url, conn, stop, threadVars>>

(* The thread takes the receiver of events with it.                        *)
EvtEnds(how) == evt' = how /\ events' = <<>> /\ fresh' = None

EvtChecksShutdown ==
  /\ evt = "check"
  /\ \/ stop /\ EvtEnds("done")
     \/ ~stop /\ evt' = "recv" /\ UNCHANGED <<events, fresh>>
  /\ UNCHANGED <<attached, listVars>> /\ NotEvt

(* Mutant: on a timeout or a disconnected sender the loop goes on.         *)
Mut_KeepsListening ==
  /\ evt = "recv" /\ events = <<>>
  /\ evt' = "check"
  /\ UNCHANGED <<events, fresh, attached, listVars>> /\ NotEvt
(* recv_timeout runs out, or the sender is gone and the channel drained.   *)
EvtHearsNothing ==
  /\ evt = "recv" /\ events = <<>>
  /\ EvtEnds("done")
  /\ UNCHANGED <<attached, listVars>> /\ NotEvt

Takes(type) == evt = "recv" /\ events # <<>> /\ Head(events).type = type

(* Only pages get a tab.  A Tab::new that fails ends the thread.           *)
EvtTargetCreated ==
  /\ Takes("created")
  /\ LET info == Head(events).info IN
     \/ /\ info.target \notin Pages
        /\ evt' = "check" /\ events' = Tail(events)
        /\ UNCHANGED <<fresh, attached>>
     \/ /\ info.target \in Pages /\ Attaches(info.target, TRUE)
        /\ evt' = "enable" /\ fresh' = info /\ events' = Tail(events)
     \/ /\ info.target \in Pages /\ Attaches(info.target, FALSE)
        /\ EvtEnds("done")
  /\ UNCHANGED listVars /\ NotEvt

(* The rest of Tab::new: Page.enable and setLifecycleEventsEnabled.        *)
EvtEnablesTab ==
  /\ evt = "enable"
  /\ \/ Returns(fresh.target, TRUE) /\ evt' = "push" /\ UNCHANGED <<events, fresh>>
     \/ Returns(fresh.target, FALSE) /\ EvtEnds("done")
  /\ UNCHANGED <<attached, listVars>> /\ NotEvt

EvtPushesTab ==
  /\ evt = "push" /\ lock = "free"
  /\ tabs' = Append(tabs, TabOf(fresh))
  /\ evt' = "check" /\ fresh' = None
  /\ UNCHANGED <<events, attached, lock>> /\ NotEvt

(* Mutant: the change is taken for the first tab of the list.              *)
Mut_WithChange(info) ==
  IF Listed(info.target) THEN [tabs EXCEPT ![1].url = info.url] ELSE tabs
(* update_target_info of the first tab with that id.                       *)
WithChange(info) ==
  IF Listed(info.target)
  THEN [tabs EXCEPT ![Position(info.target)].url = info.url] ELSE tabs

(* What becomes of a page that has gone to a devtools:// url is ignored.   *)
Concerns(info) ==
  info.target \in Pages /\ <<info.target, info.url>> \notin DevtoolsUrls

EvtTargetInfoChanged ==
  /\ Takes("changed") /\ evt' = "check" /\ events' = Tail(events)
  /\ LET info == Head(events).info IN
     \/ ~Concerns(info) /\ UNCHANGED tabs
     \/ Concerns(info) /\ lock = "free" /\ tabs' = WithChange(info)
  /\ UNCHANGED <<fresh, attached, lock>> /\ NotEvt

EvtTargetDestroyed ==
  /\ Takes("destroyed") /\ lock = "free"
  /\ tabs' = RemoveFirstMatch(tabs, LAMBDA tab : tab.target = Head(events).target)
  /\ evt' = "check" /\ events' = Tail(events)
  /\ UNCHANGED <<fresh, attached, lock>> /\ NotEvt

(* lock().unwrap() on a poisoned list.                                     *)
EvtPanics ==
  /\ lock = "poisoned"
  /\ \/ evt = "push" \/ Takes("destroyed")
     \/ Takes("changed") /\ Concerns(Head(events).info)
  /\ EvtEnds("panicked")
  /\ UNCHANGED <<attached, listVars>> /\ NotEvt

EvtStep ==
  \/ EvtChecksShutdown \/ EvtHearsNothing \/ EvtTargetCreated \/ EvtEnablesTab
  \/ EvtPushesTab \/ EvtTargetInfoChanged \/ EvtTargetDestroyed \/ EvtPanics

-----------------------------------------------------------------------------
(* Application threads.                                                    *)

Goto(k, label) == pc' = [pc EXCEPT ![k] = label]
NotThread == UNCHANGED <<stop, evtVars>>

(* new_tab_with_options: CreateTarget, ...                                 *)
NewTab(o) ==
  /\ pc[o] = "idle" /\ ~stop
  /\ \/ \E t \in Pages :
          /\ Opens(t)
          /\ wanted' = [wanted EXCEPT ![o] = t]
          /\ Goto(o, "poll")
          /\ UNCHANGED <<missing, previous>>
     \/ /\ conn = "down"
        /\ Goto(o, "done")
        /\ UNCHANGED <<chromeVars, conn, events, listVars, wanted, missing, previous>>
        /\ NotThread

(* ... and polling the list for it.                                        *)
NewTabPolls(o) ==
  /\ pc[o] = "poll"
  /\ \/ lock = "free" /\ (WaitsExpire \/ Listed(wanted[o])) /\ Goto(o, "done")
     \/ lock = "poisoned" /\ Goto(o, "panicked")
  /\ UNCHANGED <<chromeVars, conn, events, listVars, wanted, missing, previous>>
  /\ NotThread

(* register_missing_tabs: GetTargets, whose error is not looked at yet...  *)
ListTargets(r) ==
  /\ pc[r] = "idle" /\ ~stop
  /\ \/ /\ conn = "up"
        /\ \E order \in SetToSeqs(live) :
             missing' = [missing EXCEPT ![r] = [i \in DOMAIN order |-> InfoOf(order[i])]]
        /\ Goto(r, "lock")
     \/ /\ conn = "down" \/ WaitsExpire
        /\ Goto(r, "failed") /\ UNCHANGED missing
  /\ UNCHANGED <<chromeVars, conn, events, listVars, wanted, previous>> /\ NotThread

(* Mutant: the guard is not kept (`let _ = ...lock()`).                    *)
Mut_LockTabs(r) ==
  /\ pc[r] = "lock" /\ lock = "free" /\ Goto(r, "each")
  /\ UNCHANGED <<chromeVars, conn, events, listVars, wanted, missing, previous>> /\ NotThread
(* ... the lock; with it, unwrap() of the error poisons the list.          *)
LockTabs(r) ==
  /\ pc[r] \in {"lock", "failed"}
  /\ \/ lock = "free" /\ pc[r] = "lock" /\ lock' = r /\ Goto(r, "each")
     \/ lock = "free" /\ pc[r] = "failed" /\ lock' = "poisoned" /\ Goto(r, "panicked")
     \/ lock = "poisoned" /\ UNCHANGED lock /\ Goto(r, "panicked")
  /\ UNCHANGED <<chromeVars, conn, events, tabs, wanted, missing, previous>> /\ NotThread

(* Mutant: the tab goes into the previous one's place.                     *)
Mut_WithTab(tab, prev) ==
  IF Listed(prev) THEN ReplaceAt(tabs, Position(prev), tab) ELSE Append(tabs, tab)
(* The new tab goes before that of the previous target, or to the end.     *)
WithTab(tab, prev) ==
  IF Listed(prev) THEN InsertAt(tabs, Position(prev), tab) ELSE Append(tabs, tab)

NextTarget(r) ==
  /\ previous' = [previous EXCEPT ![r] = Head(missing[r]).target]
  /\ missing' = [missing EXCEPT ![r] = Tail(@)]

(* The target of a listed tab is skipped, and so is one without a session  *)
(* - but not while the list is empty: both are asked of its elements.      *)
Skips(info) ==
  \E i \in DOMAIN tabs : tabs[i].target = info.target \/ ~info.attached

(* Mutant: `?` or unwrap() where a failed Tab::new is passed over.         *)
Mut_TabFails(r) ==
  Goto(r, "panicked") /\ lock' = "poisoned" /\ NextTarget(r)
(* Mutant: the failed Tab::new is tried again.                             *)
Mut_TabRetries(r) ==
  Goto(r, "each") /\ UNCHANGED <<missing, previous, lock>>
TabFails(r) ==
  Goto(r, "each") /\ NextTarget(r) /\ UNCHANGED lock

RegisterTarget(r) ==
  /\ pc[r] = "each" /\ missing[r] # <<>>
  /\ LET info == Head(missing[r]) IN
     \/ /\ Skips(info)
        /\ NextTarget(r) /\ UNCHANGED <<attached, lock, pc>>
     \/ /\ ~Skips(info) /\ Attaches(info.target, TRUE)
        /\ Goto(r, "enable") /\ UNCHANGED <<lock, missing, previous>>
     \/ /\ ~Skips(info) /\ Attaches(info.target, FALSE)
        /\ TabFails(r)
  /\ UNCHANGED <<live, opened, url, conn, events, tabs, wanted>> /\ NotThread

EnableMissingTab(r) ==
  /\ pc[r] = "enable"
  /\ LET info == Head(missing[r]) IN
     \/ /\ Returns(info.target, TRUE)
        /\ tabs' = WithTab(TabOf(info), previous[r])
        /\ Goto(r, "each") /\ NextTarget(r) /\ UNCHANGED lock
     \/ Returns(info.target, FALSE) /\ TabFails(r) /\ UNCHANGED tabs
  /\ UNCHANGED <<chromeVars, conn, events, wanted>> /\ NotThread

UnlockTabs(r) ==
  /\ pc[r] = "each" /\ missing[r] = <<>>
  /\ lock' = "free" /\ Goto(r, "done")
  /\ UNCHANGED <<chromeVars, conn, events, tabs, wanted, missing, previous>> /\ NotThread

RegistrarStep(r) ==
  ListTargets(r) \/ LockTabs(r) \/ RegisterTarget(r) \/ EnableMissingTab(r)
  \/ UnlockTabs(r)

(* BrowserInner is dropped once no thread uses it; the transport's own     *)
(* shutdown follows as ConnectionEnds.                                     *)
DropBrowser ==
  /\ ~stop /\ stop' = TRUE
  /\ \A k \in Threads : pc[k] \in {"idle", "done", "panicked"}
  /\ UNCHANGED <<chromeVars, conn, events, evtVars, listVars, threadVars>>

-----------------------------------------------------------------------------
Next ==
  \/ \E t \in Targets : TargetOpens(t) \/ TargetCloses(t) \/ TargetChanges(t)
  \/ ConnectionEnds
  \/ EvtStep
  \/ \E o \in Openers : NewTab(o) \/ NewTabPolls(o)
  \/ \E r \in Registrars : RegistrarStep(r)
  \/ DropBrowser

Spec == Init /\ [][Next]_vars

(* Threads that have begun keep running, recv_timeout runs out when nothing *)
(* comes, and a dropped browser shuts its connection.  Nothing is assumed  *)
(* of Chrome, nor that the application calls or drops anything.            *)
FairSpec ==
  /\ Spec
  /\ WF_vars(EvtStep)
  /\ \A o \in Openers : WF_vars(NewTabPolls(o))
  /\ \A r \in Registrars : WF_vars(RegistrarStep(r) /\ pc[r] # "idle")
  /\ WF_vars(ConnectionEnds /\ stop)

-----------------------------------------------------------------------------
(* Properties.                                                             *)

ListedTargets == {tabs[i].target : i \in DOMAIN tabs}

(* The event thread has caught up with Chrome, and nobody else works on    *)
(* the list.                                                               *)
Settled ==
  /\ conn = "up" /\ evt \in {"check", "recv"} /\ events = <<>>
  /\ lock = "free" /\ \A r \in Registrars : pc[r] \notin {"lock", "failed"}

(* A tab's url is its page's, or was until the page went to devtools://    *)
(* urls, which the event thread ignores: then the tab keeps the old one.   *)
IsCurrent(tab) ==
  /\ tab.url <= url[tab.target]
  /\ \A v \in (tab.url + 1)..url[tab.target] : <<tab.target, v>> \in DevtoolsUrls

(* As long as nobody has called register_missing_tabs, the list settles to *)
(* Chrome's pages, each once, with the latest url that is not devtools://: *)
(* events that arrive while a tab is being made are neither lost nor       *)
(* applied too early.                                                      *)
ListIsCurrent ==
  Settled /\ (\A r \in Registrars : pc[r] = "idle") =>
    /\ ListedTargets = live \cap Pages
    /\ \A i \in DOMAIN tabs : IsCurrent(tabs[i])
    /\ \A i, j \in DOMAIN tabs : tabs[i].target = tabs[j].target => i = j

(* register_missing_tabs, racing with the event thread, never takes a page *)
(* off the list.                                                           *)
EveryPageIsListed == Settled => live \cap Pages \subseteq ListedTargets

(* register_missing_tabs "Adds tabs that have not been opened with new_tab *)
(* to the list of tabs": a tab that was is not added again.                *)
OpenedTabIsListedOnce ==
  \A o \in Openers : \A i, j \in DOMAIN tabs :
    tabs[i].target = wanted[o] /\ tabs[j].target = wanted[o] => i = j

(* The list's mutex is poisoned, and its users panic, only after the       *)
(* connection has ended: a target that closes while register_missing_tabs  *)
(* makes its tab does not do it.                                           *)
PoisonedOnlyAtTheEnd ==
  lock = "poisoned" \/ evt = "panicked" \/ (\E k \in Threads : pc[k] = "panicked")
    => conn = "down"

(* While new_tab polls and its target, the connection and the event thread *)
(* live, the tab is listed or still on its way there: nothing that the     *)
(* event thread or register_missing_tabs does loses it.                    *)
OpenedTabIsComing ==
  \A o \in Openers :
    pc[o] = "poll" /\ wanted[o] \in live /\ conn = "up" /\ ~EvtEnded =>
      \/ Listed(wanted[o])
      \/ evt \in {"enable", "push"} /\ fresh.target = wanted[o]
      \/ \E i \in DOMAIN events :
           events[i].type = "created" /\ events[i].info.target = wanted[o]

(* A new_tab without a timeout finds its tab once that is listed, though   *)
(* register_missing_tabs keeps the list to itself during calls to Chrome.  *)
ListedTabIsFound ==
  \A o \in Openers :
    pc[o] = "poll" /\ Listed(wanted[o]) ~> pc[o] # "poll" \/ ~Listed(wanted[o])

(* The event thread, which keeps the transport alive, ends once the        *)
(* browser is dropped or its connection is gone.                           *)
EventThreadEnds == stop \/ conn = "down" ~> EvtEnded
=============================================================================
