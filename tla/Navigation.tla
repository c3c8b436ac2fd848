----------------------------- MODULE Navigation -----------------------------
(***************************************************************************)
(* The navigating flag of a tab: browser/tab/mod.rs.  navigate_to sets it  *)
(* after Page.navigate has returned; the tab's event thread sets it on     *)
(* "init" and clears it on "networkAlmostIdle"; wait_until_navigated polls *)
(* it.  The lifecycle events of child frames reach the same handler, which *)
(* looks at their names only.                                              *)
(*                                                                         *)
(* Chrome is its frames: each starts to load, commits ("init"), and sends  *)
(* "networkAlmostIdle" once its network has been quiet for a while.        *)
(***************************************************************************)
EXTENDS Naturals, Sequences

CONSTANTS
  Main,      \* the main frame
  Children,  \* child frames that documents may have
  Fragments, \* whether urls may differ from the tab's in their fragment only
  MaxLoads,  \* bound: documents the main frame starts to load
  MaxQueue   \* bound: lifecycle events on their way

Frames == {Main} \cup Children

ASSUME BoundsAreNat == MaxLoads \in Nat /\ MaxQueue \in Nat
ASSUME MainIsNoChild == Main \notin Children

VARIABLES
  navigating, \* Tab.navigating
  pc,         \* the thread that drives the tab
  queue,      \* lifecycle events on their way to the event thread
  loads,      \* Chrome: documents its main frame has started to load
  phase,      \* Chrome: how far each frame is
  calm,       \* history: the tab was at rest when navigate_to was called,
              \* and nothing but that load has happened since
  orphaned    \* history: since the main frame last started to load, the flag
              \* was stored, or a frame left, with nothing to clear it

chromeVars == <<loads, phase>>
history == <<calm, orphaned>>
vars == <<navigating, pc, queue, chromeVars, history>>

Event == [name : {"init", "networkAlmostIdle"}, frame : Frames]

TypeOK ==
  /\ navigating \in BOOLEAN
  /\ pc \in {"idle", "store", "wait", "returned"}
  /\ queue \in Seq(Event)
  /\ loads \in 0..MaxLoads
  /\ phase \in [Frames -> {"none", "starting", "loading", "idle"}]
  /\ calm \in BOOLEAN /\ orphaned \in BOOLEAN

(* Tab::new has enabled the events before it listens: those of the first   *)
(* document up to here are dropped, and the flag starts FALSE.             *)
Init ==
  /\ navigating = FALSE
  /\ pc = "idle"
  /\ queue = <<>>
  /\ loads = 0
  /\ phase \in {[f \in Frames |-> IF f = Main THEN p ELSE "none"] :
                  p \in {"loading", "idle"}}
  /\ calm = FALSE /\ orphaned = FALSE

ChromeIsIdle == \A f \in Frames : phase[f] \in {"none", "idle"}
NothingToCome == ChromeIsIdle /\ queue = <<>>

-----------------------------------------------------------------------------
(* Chrome.                                                                 *)

(* A new document replaces the main frame's, and takes its child frames.   *)
Starts ==
  /\ loads < MaxLoads /\ loads' = loads + 1
  /\ phase' = [f \in Frames |-> IF f = Main THEN "starting" ELSE "none"]
  /\ orphaned' = FALSE

(* A link or a script of the page, or a user, navigates it.                *)
PageNavigates ==
  /\ Starts
  /\ calm' = FALSE
  /\ UNCHANGED <<navigating, pc, queue>>

ChildAppears(f) ==
  /\ phase[f] = "none" /\ phase[Main] \in {"loading", "idle"}
  /\ phase' = [phase EXCEPT ![f] = "starting"]
  /\ calm' = FALSE
  /\ UNCHANGED <<navigating, pc, queue, loads, orphaned>>

(* A script removes the frame: it sends no more events.                    *)
ChildLeaves(f) ==
  /\ phase[f] # "none" /\ phase' = [phase EXCEPT ![f] = "none"]
  /\ orphaned' = (orphaned \/ phase[f] # "idle")
  /\ UNCHANGED <<navigating, pc, queue, loads, calm>>

Emits(f, from, to, name) ==
  /\ phase[f] = from /\ phase' = [phase EXCEPT ![f] = to]
  /\ Len(queue) < MaxQueue
  /\ queue' = Append(queue, [name |-> name, frame |-> f])
  /\ UNCHANGED <<navigating, pc, loads, history>>

FrameCommits(f) == Emits(f, "starting", "loading", "init")

FrameSettles(f) == Emits(f, "loading", "idle", "networkAlmostIdle")

-----------------------------------------------------------------------------
(* The event thread's handling of lifecycle events.                        *)

(* Mutant: only the main frame's idleness counts, but any frame's init.    *)
Mut_FlagAfter(event) ==
  event.name = "init" \/ (navigating /\ event.frame # Main)
FlagAfter(event) == event.name = "init"

HandleLifecycleEvent ==
  /\ queue # <<>> /\ queue' = Tail(queue)
  /\ navigating' = FlagAfter(Head(queue))
  /\ UNCHANGED <<pc, chromeVars, history>>

-----------------------------------------------------------------------------
(* The driving thread.                                                     *)

(* Page.navigate returns: with an error, after which Chrome may still load *)
(* an error page; with a new document on its way; or, for a url that only  *)
(* differs in its fragment, with nothing to load.                          *)
NavigateTo ==
  /\ pc \in {"idle", "returned"}
  /\ calm' = (NothingToCome /\ ~navigating)
  /\ \/ Starts /\ pc' \in {"store", "idle"}
     \/ Fragments /\ pc' = "store" /\ UNCHANGED <<chromeVars, orphaned>>
  /\ UNCHANGED <<navigating, queue>>

(* Mutant: the flag is left to the event thread.                           *)
Mut_SetNavigating == UNCHANGED navigating
SetNavigating == navigating' = TRUE

StoreNavigating ==
  /\ pc = "store"
  /\ SetNavigating
  /\ pc' = "wait"
  /\ orphaned' = (orphaned \/ NothingToCome)
  /\ UNCHANGED <<queue, chromeVars, calm>>

(* wait_until_navigated, after a navigate_to or without one.               *)
WaitUntilNavigated ==
  /\ pc \in {"idle", "wait"} /\ ~navigating
  /\ pc' = "returned"
  /\ UNCHANGED <<navigating, queue, chromeVars, history>>

(* The Wait runs out, or the caller goes on without it.                    *)
GoesOn ==
  /\ pc = "wait" /\ pc' = "idle"
  /\ UNCHANGED <<navigating, queue, chromeVars, history>>

-----------------------------------------------------------------------------
Next ==
  \/ PageNavigates
  \/ \E f \in Children : ChildAppears(f) \/ ChildLeaves(f)
  \/ \E f \in Frames : FrameCommits(f) \/ FrameSettles(f)
  \/ HandleLifecycleEvent
  \/ NavigateTo \/ StoreNavigating \/ WaitUntilNavigated \/ GoesOn

Spec == Init /\ [][Next]_vars

-----------------------------------------------------------------------------
(* Properties.                                                             *)

(* When Chrome has nothing left to load and its events are handled, the    *)
(* flag is clear, so that wait_until_navigated returns: the frames' events *)
(* may come in any order, and a new load repairs a flag that an earlier    *)
(* one left set.  The two ways to leave it set until then are excluded:    *)
(* navigate_to storing it after the last event was handled (also for a url *)
(* with a new fragment only), and a child frame removed as it loads.       *)
FlagSettles == NothingToCome /\ ~orphaned => ~navigating

(* navigate_to on a tab at rest, then wait_until_navigated: it returns     *)
(* only when the new document is idle, even if Page.navigate returns long  *)
(* before Chrome sends anything of it.                                     *)
CalmWaitSeesLoad ==
  [][pc = "wait" /\ pc' = "returned" /\ calm => phase[Main] = "idle"]_vars
=============================================================================
