------------------------------ MODULE Elements ------------------------------
(***************************************************************************)
(* Finding elements and acting on them: browser/tab/element/mod.rs and the *)
(* finders, waits and input of browser/tab/mod.rs, by threads that share a *)
(* tab, on a page that changes by itself.                                  *)
(*                                                                         *)
(* An operation is a sequence of calls to Chrome, Calls; one action is one *)
(* call with the code up to the next.  The page is followed as far as one  *)
(* selector goes: the node it matches first, whether that has boxes and    *)
(* whether it is in view.  A node id is good until DOM.getDocument is      *)
(* called next, by whatever thread, or the page is left; the object and    *)
(* the backend id of a node are good until the page is left.               *)
(*                                                                         *)
(* A node need not be what the code takes it for: of a Sparse one Chrome's *)
(* answers may lack what they have of an HTML element.  A text node is no  *)
(* element, has no rectangle and no visibility; an SVG element has no      *)
(* innerText; the protocol makes object ids and values optional.           *)
(***************************************************************************)
EXTENDS Naturals, Sequences

CONSTANTS
  Threads,
  Nodes,
  Sparse,     \* the nodes that are not, or need not be, HTML elements
  Focusable,  \* the nodes that can be focused when they have boxes
  None,
  OpsOf,      \* bound: what each thread's first operation may be, its second, ...
  MaxChanges  \* bound: changes of the page

VARIABLES
  match,    \* the node that the selector matches first
  boxes,    \* does it have boxes?
  inView,   \* is it in view?
  open,     \* the connection
  op,       \* each thread's operation
  at,       \* the index of its next call
  rootOk,   \* is its root id, or its search, good?
  found,    \* the node it has found
  foundOk,  \* is the id of that good?
  point,    \* the point it goes to: was the node "in" or "out" of view?
  expired,  \* its Wait has run out
  outcome,  \* of its operation
  elem,     \* the node of the element it holds
  elemOk,   \* is its node_id good?
  elemLive, \* are its remote_object_id and its backend_node_id?
  ops,      \* operations begun
  changes,  \* changes of the page left
  changed,  \* history: what has changed since the operation began
  since     \* history: its Losses since the search for the element began

page  == <<match, boxes, inView, open>>
ids   == <<rootOk, foundOk, elemOk>>
local == <<op, at, found, point, expired, outcome, elem>>
history == <<changed, since>>
vars  == <<page, ids, local, elemLive, ops, changes, history>>

-----------------------------------------------------------------------------
(* The calls of each operation.                                            *)

ByQuery == <<"query", "describe", "resolve">>
ByAll   == <<"queryAll", "describe", "resolve">>
ByXpath == <<"document", "search", "results", "describe", "resolve">>
ToPoint == <<"scroll", "quads", "poll", "move">>
Click   == ToPoint \o <<"press", "release">>

TabFinds  == [find |-> <<"document">> \o ByQuery, findAll |-> <<"document">> \o ByAll,
              xpath |-> ByXpath, xpathAll |-> ByXpath]
OnTab     == [getDocument |-> <<"document">>]
TabWaits  == [wait |-> TabFinds.find, waitAll |-> TabFinds.findAll, waitXpath |-> ByXpath,
              waitXpathAll |-> ByXpath, waitVisible |-> TabFinds.find \o <<"visible">>]
ElemFinds == [findIn |-> ByQuery, findAllIn |-> ByAll, xpathIn |-> ByXpath,
              xpathAllIn |-> ByXpath]
ElemWaits == [waitIn |-> ByQuery, waitAllIn |-> ByAll, waitXpathIn |-> ByXpath,
              waitXpathAllIn |-> ByXpath]

(* A character that is on the keyboard, and one that is not.               *)
TypeStr == <<"keyDown", "keyUp", "insert">>
Focus   == <<"scroll", "focus">>
Shot    == <<"scroll", "box", "capture">>
Read    == <<"object">>

Acts == [click |-> Click, hover |-> ToPoint, type |-> Click \o TypeStr, focus |-> Focus,
         shot |-> Shot, read |-> Read, styles |-> <<"styles">>]

Ops(f) == DOMAIN f
Waits == Ops(TabWaits) \cup Ops(ElemWaits)
Finders == Ops(TabFinds) \cup Ops(ElemFinds) \cup Waits
OnElement == Ops(ElemFinds) \cup Ops(ElemWaits) \cup Ops(Acts)
Operations == Finders \cup Ops(Acts) \cup Ops(OnTab)

Calls(o) ==
  CASE o \in Ops(TabFinds) -> TabFinds[o]   [] o \in Ops(TabWaits) -> TabWaits[o]
    [] o \in Ops(ElemFinds) -> ElemFinds[o] [] o \in Ops(ElemWaits) -> ElemWaits[o]
    [] o \in Ops(Acts) -> Acts[o]           [] o \in Ops(OnTab) -> OnTab[o]

(* Changes after which an element may not be what it was.                  *)
Losses == {"node", "page"}

ASSUME KindsOfNodes == Sparse \subseteq Nodes /\ Focusable \subseteq Nodes
ASSUME BoundsAreNat == MaxChanges \in Nat
ASSUME NoneIsNothing == None \notin Nodes \cup Operations
ASSUME OpsAreOperations == \A t \in Threads : OpsOf[t] \in Seq(SUBSET Operations)

TypeOK ==
  /\ match \in Nodes \cup {None} /\ boxes \in BOOLEAN /\ inView \in BOOLEAN
  /\ open \in BOOLEAN
  /\ op \in [Threads -> Operations \cup {None}]
  /\ \A t \in Threads : op[t] # None => at[t] \in 1..Len(Calls(op[t]))
  /\ rootOk \in [Threads -> BOOLEAN] /\ foundOk \in [Threads -> BOOLEAN]
  /\ elemOk \in [Threads -> BOOLEAN] /\ elemLive \in [Threads -> BOOLEAN]
  /\ found \in [Threads -> Nodes \cup {None}] /\ elem \in [Threads -> Nodes \cup {None}]
  /\ expired \in [Threads -> BOOLEAN]
  /\ point \in [Threads -> {"none", "in", "out"}]
  /\ outcome \in [Threads -> {"none", "ok", "missing", "error", "timeout", "panic"}]
  /\ \A t \in Threads : ops[t] \in 0..Len(OpsOf[t])
  /\ changes \in 0..MaxChanges
  /\ changed \in [Threads -> SUBSET {"ids", "shape", "node", "page"}]
  /\ since \in [Threads -> SUBSET Losses]

(* What is not there has no boxes, and what has none is not in view.       *)
PageIs(m, b, v) == (m = None => ~b) /\ (~b => ~v)

Init ==
  /\ match \in Nodes \cup {None} /\ boxes \in BOOLEAN /\ inView \in BOOLEAN
  /\ PageIs(match, boxes, inView) /\ open = TRUE
  /\ op = [t \in Threads |-> None] /\ at = [t \in Threads |-> 1]
  /\ rootOk = [t \in Threads |-> FALSE] /\ foundOk = [t \in Threads |-> FALSE]
  /\ elemOk = [t \in Threads |-> FALSE] /\ elemLive = [t \in Threads |-> FALSE]
  /\ found = [t \in Threads |-> None] /\ elem = [t \in Threads |-> None]
  /\ expired = [t \in Threads |-> FALSE]
  /\ point = [t \in Threads |-> "none"] /\ outcome = [t \in Threads |-> "none"]
  /\ ops = [t \in Threads |-> 0] /\ changes = MaxChanges
  /\ changed = [t \in Threads |-> {}] /\ since = [t \in Threads |-> {}]

-----------------------------------------------------------------------------
(* An operation begins, goes on and ends.                                  *)

Set(f, t, v) == [f EXCEPT ![t] = v]

WhileRuns(t, what) == IF op[t] \in Finders \cup Ops(Acts) THEN what ELSE {}
WhileHeld(t, what) == IF elem[t] = None THEN {} ELSE what \cap Losses

Start(t) ==
  /\ op[t] = None /\ ops[t] < Len(OpsOf[t])
  /\ ops' = [ops EXCEPT ![t] = @ + 1]
  /\ \E o \in OpsOf[t][ops'[t]] :
       /\ o \in OnElement => elem[t] # None
       /\ op' = Set(op, t, o)
  /\ at' = Set(at, t, 1)
  /\ UNCHANGED <<page, ids, found, point, expired, outcome, elem, elemLive, changes,
                 history>>

(* The outcome is there for the thread to look at, until Return, which ends *)
(* the life of the operation's local variables.                            *)
Running(t) == op[t] # None /\ outcome[t] = "none"
Call(t, c) == Running(t) /\ Calls(op[t])[at[t]] = c

(* Mutants: the clock is looked at first; one call too many.               *)
Mut_ClockFirst(t) ==
  IF at[t] < Len(Calls(op[t]))
  THEN at' = [at EXCEPT ![t] = @ + 1] /\ UNCHANGED outcome
  ELSE outcome' = Set(outcome, t, IF expired[t] THEN "timeout" ELSE "ok") /\ UNCHANGED at
Mut_OneTooMany(t) ==
  IF at[t] <= Len(Calls(op[t]))
  THEN at' = [at EXCEPT ![t] = @ + 1] /\ UNCHANGED outcome
  ELSE outcome' = Set(outcome, t, "ok") /\ UNCHANGED at
Proceed(t) ==
  IF at[t] < Len(Calls(op[t]))
  THEN at' = [at EXCEPT ![t] = @ + 1] /\ UNCHANGED outcome
  ELSE outcome' = Set(outcome, t, "ok") /\ UNCHANGED at

Fail(t, how) == outcome' = Set(outcome, t, how) /\ UNCHANGED at

(* NoElementFound: strict_until looks at the clock and tries again, but    *)
(* wait_until_visible makes another error of it.                           *)
Again(t) == at' = Set(at, t, 1) /\ UNCHANGED outcome
(* Mutant: the clock is not looked at.                                     *)
Mut_Miss(t) == IF op[t] \in Waits \ {"waitVisible"} THEN Again(t) ELSE Fail(t, "missing")
Miss(t) ==
  CASE op[t] = "waitVisible" -> Fail(t, "error")
    [] op[t] \in Waits \ {"waitVisible"} -> IF expired[t] THEN Fail(t, "timeout") ELSE Again(t)
    [] OTHER -> Fail(t, "missing")

Return(t) ==
  /\ op[t] # None /\ outcome[t] # "none"
  /\ op' = Set(op, t, None) /\ at' = Set(at, t, 1) /\ outcome' = Set(outcome, t, "none")
  /\ rootOk' = Set(rootOk, t, FALSE) /\ foundOk' = Set(foundOk, t, FALSE)
  /\ found' = Set(found, t, None)
  /\ point' = Set(point, t, "none") /\ expired' = Set(expired, t, FALSE)
  /\ changed' = Set(changed, t, {})
  /\ UNCHANGED <<page, elemOk, elem, elemLive, ops, changes, since>>

Expire(t) ==
  /\ Running(t) /\ ~expired[t]
  /\ op[t] \in Waits \ {"waitVisible"} \/ Call(t, "poll")
  /\ expired' = Set(expired, t, TRUE)
  /\ UNCHANGED <<page, ids, op, at, found, point, outcome, elem, elemLive, ops,
                 changes, history>>

-----------------------------------------------------------------------------
(* Finding.                                                                *)

(* DOM.getDocument discards the node ids and the searches of all.          *)
GetDocument(t) ==
  /\ Call(t, "document")
  /\ IF open
     THEN /\ rootOk' = [u \in Threads |-> u = t]
          /\ foundOk' = [u \in Threads |-> FALSE] /\ elemOk' = [u \in Threads |-> FALSE]
          /\ changed' = [u \in Threads |-> IF u = t THEN changed[u]
                                           ELSE WhileRuns(u, changed[u] \cup {"ids"})]
          /\ Proceed(t)
     ELSE Fail(t, "error") /\ UNCHANGED <<ids, changed>>
  /\ UNCHANGED <<page, op, found, point, expired, elem, elemLive, ops, changes, since>>

(* A query goes to the root's id, or to the element's, in which there may  *)
(* be nothing that the selector matches.                                   *)
QueriedOk(t) == IF op[t] \in OnElement THEN elemOk[t] ELSE rootOk[t]
Matches(t) ==
  IF op[t] \in OnElement THEN IF elem[t] = match THEN {match, None} ELSE {None}
  ELSE {match}

Finds(t, n) ==
  found' = Set(found, t, n) /\ foundOk' = Set(foundOk, t, n # None) /\ Proceed(t)
FindsNot == UNCHANGED <<found, foundOk>>

(* NoElementFound::map: a node id that is not good is an element not found.*)
Unknown(t) == IF open THEN Miss(t) ELSE Fail(t, "error")

QuerySelector(t) ==
  /\ Call(t, "query")
  /\ IF open /\ QueriedOk(t)
     THEN \E n \in Matches(t) : IF n = None THEN Miss(t) /\ FindsNot ELSE Finds(t, n)
     ELSE Unknown(t) /\ FindsNot
  /\ UNCHANGED <<page, rootOk, elemOk, op, point, expired, elem, elemLive, ops,
                 changes, history>>

(* Of many nodes one is followed.  No node is no element for the tab, but  *)
(* for an element it is an empty vector.                                   *)
(* Mutant: for the tab too.                                                *)
Mut_NoneOfAll(t) == outcome' = Set(outcome, t, "ok") /\ UNCHANGED at
NoneOfAll(t) ==
  IF op[t] \in OnElement THEN outcome' = Set(outcome, t, "ok") /\ UNCHANGED at ELSE Miss(t)

QuerySelectorAll(t) ==
  /\ Call(t, "queryAll")
  /\ IF open /\ QueriedOk(t)
     THEN \E n \in Matches(t) : IF n = None THEN NoneOfAll(t) /\ FindsNot ELSE Finds(t, n)
     ELSE Unknown(t) /\ FindsNot
  /\ UNCHANGED <<page, rootOk, elemOk, op, point, expired, elem, elemLive, ops,
                 changes, history>>

PerformSearch(t) ==
  /\ Call(t, "search")
  /\ IF open THEN Proceed(t) ELSE Fail(t, "error")
  /\ UNCHANGED <<page, ids, op, found, point, expired, elem, elemLive, ops, changes,
                 history>>

(* A search that is gone or has no results is an error of Chrome's, or the *)
(* list of results is empty.  The tab's find_element_by_xpath takes both   *)
(* for an element not found; the others return the error, and return the   *)
(* list, or its first member.                                              *)
(* Mutant: so does the tab.                                                *)
ListXpath == {"xpathAll", "waitXpathAll", "xpathAllIn", "waitXpathAllIn"}
EmptyResults(t) ==
  open /\ rootOk[t] /\ Fail(t, IF op[t] \in ListXpath THEN "ok" ELSE "panic")
Mut_NoResults(t) == Fail(t, "error") \/ EmptyResults(t)
NoResults(t) ==
  IF op[t] \in {"xpath", "waitXpath"} THEN Miss(t)
  ELSE Fail(t, "error") \/ EmptyResults(t)

GetSearchResults(t) ==
  /\ Call(t, "results")
  /\ IF open /\ rootOk[t] /\ match # None THEN Finds(t, match) ELSE NoResults(t) /\ FindsNot
  /\ UNCHANGED <<page, rootOk, elemOk, op, point, expired, elem, elemLive, ops,
                 changes, history>>

(* Mutant: without NoElementFound::map.                                    *)
Mut_Undescribed(t) == Fail(t, "error")
Undescribed(t) == Unknown(t)

DescribeNode(t) ==
  /\ Call(t, "describe")
  /\ IF open /\ foundOk[t] THEN Proceed(t) ELSE Undescribed(t)
  /\ UNCHANGED <<page, ids, op, found, point, expired, elem, elemLive, ops, changes,
                 history>>

(* By the backend id: an error is returned as it is, and an answer without *)
(* an object id is unwrapped.  A node that has been removed may be gone    *)
(* altogether.                                                             *)
Gone(t) == "page" \in changed[t]
MayBeGone(t) == Gone(t) \/ found[t] # match

ResolveNode(t) ==
  /\ Call(t, "resolve")
  /\ \/ /\ open /\ ~Gone(t) /\ Proceed(t)
        /\ elem' = Set(elem, t, found[t]) /\ elemOk' = Set(elemOk, t, foundOk[t])
        /\ elemLive' = Set(elemLive, t, TRUE) /\ since' = Set(since, t, changed[t] \cap Losses)
     \/ /\ \/ (~open \/ MayBeGone(t)) /\ Fail(t, "error")
           \/ open /\ ~Gone(t) /\ found[t] \in Sparse /\ Fail(t, "panic")
        /\ UNCHANGED <<elem, elemOk, elemLive, since>>
  /\ UNCHANGED <<page, rootOk, foundOk, op, found, point, expired, ops, changes,
                 changed>>

(* Calls that name the element by its remote_object_id or backend_node_id. *)
(* Mutant: by its node_id.                                                 *)
Mut_Stable(t) == open /\ elemOk[t]
Stable(t) == open /\ elemLive[t]

(* A script's answer is unwrapped: it must have a value.                   *)
Unwraps(t) == Stable(t) /\ elem[t] \in Sparse /\ Fail(t, "panic")

(* is_visible: an error is "not visible".  wait_until_visible does not     *)
(* look at the answer.                                                     *)
CheckVisibility(t) ==
  /\ Call(t, "visible")
  /\ Proceed(t) \/ Unwraps(t)
  /\ UNCHANGED <<page, ids, op, found, point, expired, elem, elemLive, ops, changes, history>>

-----------------------------------------------------------------------------
(* Acting.                                                                 *)

Attached(t) == elem[t] = match

(* get_inner_text and get_content unwrap the value, which get_inner_text   *)
(* also takes for a string; the other readers return what there is.        *)
CallOnElement(t) ==
  /\ Call(t, "object")
  /\ \/ Stable(t) /\ Proceed(t)
     \/ Unwraps(t)
     \/ (~Stable(t) \/ elem[t] \in Sparse) /\ Fail(t, "error")
  /\ UNCHANGED <<page, ids, op, found, point, expired, elem, elemLive, ops, changes,
                 history>>

(* Chrome refuses to focus what cannot be focused or is not displayed.     *)
FocusOn(t) ==
  /\ Call(t, "focus")
  /\ IF Stable(t) /\ Attached(t) /\ boxes /\ elem[t] \in Focusable THEN Proceed(t)
     ELSE Fail(t, "error")
  /\ UNCHANGED <<page, ids, op, found, point, expired, elem, elemLive, ops, changes,
                 history>>

GetBoxModel(t) ==
  /\ Call(t, "box")
  /\ IF Stable(t) /\ Attached(t) /\ boxes THEN Proceed(t) ELSE Fail(t, "error")
  /\ UNCHANGED <<page, ids, op, found, point, expired, elem, elemLive, ops, changes,
                 history>>

(* The computed styles are asked for by node_id.                           *)
GetComputedStyles(t) ==
  /\ Call(t, "styles")
  /\ \/ open /\ elemOk[t] /\ Proceed(t)
     \/ (~open \/ ~elemOk[t] \/ elem[t] \in Sparse) /\ Fail(t, "error")
  /\ UNCHANGED <<page, ids, op, found, point, expired, elem, elemLive, ops, changes,
                 history>>

(* Mutant: an element is left where it is.                                 *)
Mut_Scrolled == inView
Scrolled == TRUE

(* What is detached, or is no element, is not scrolled: an error.          *)
ScrollIntoView(t) ==
  /\ Call(t, "scroll")
  /\ \/ Stable(t) /\ Attached(t) /\ inView' = (boxes /\ Scrolled) /\ Proceed(t)
     \/ /\ ~Stable(t) \/ ~Attached(t) \/ elem[t] \in Sparse
        /\ Fail(t, "error") /\ UNCHANGED inView
  /\ UNCHANGED <<match, boxes, open, ids, op, found, point, expired, elem, elemLive,
                 ops, changes, history>>

(* get_midpoint: of the first content quad, or else of the rectangle that  *)
(* a script returns.                                                       *)
HasBoxes(t) == Attached(t) /\ boxes
GetContentQuads(t) ==
  /\ Call(t, "quads")
  /\ IF Stable(t) /\ HasBoxes(t)
     THEN /\ at' = [at EXCEPT ![t] = @ + 2]
          /\ point' = Set(point, t, IF inView THEN "in" ELSE "out")
     ELSE at' = [at EXCEPT ![t] = @ + 1] /\ UNCHANGED point
  /\ UNCHANGED <<page, ids, op, found, expired, outcome, elem, elemLive, ops,
                 changes, history>>

(* The script scrolls, too.  It is run until it returns a rectangle that   *)
(* is not at 0; a call that fails is unwrapped, and what its answer lacks  *)
(* is no rectangle or is unwrapped as well.                                *)
PollRectangle(t) ==
  /\ Call(t, "poll")
  /\ \/ /\ Stable(t) /\ HasBoxes(t) /\ Proceed(t)
        /\ point' = Set(point, t, "in") /\ inView' = TRUE
     \/ /\ Stable(t) /\ expired[t] /\ (~HasBoxes(t) \/ elem[t] \in Sparse)
        /\ Fail(t, "timeout") /\ UNCHANGED <<point, inView>>
     \/ (Unwraps(t) \/ (~Stable(t) /\ Fail(t, "panic"))) /\ UNCHANGED <<point, inView>>
  /\ UNCHANGED <<match, boxes, open, ids, op, found, expired, elem, elemLive, ops,
                 changes, history>>

(* Input goes to the page, whatever is there.                              *)
Dispatch(t) ==
  /\ \E c \in {"move", "press", "release", "keyDown", "keyUp", "insert", "capture"} : Call(t, c)
  /\ IF open THEN Proceed(t) ELSE Fail(t, "error")
  /\ UNCHANGED <<page, ids, op, found, point, expired, elem, elemLive, ops, changes,
                 history>>

-----------------------------------------------------------------------------
(* The page, and the connection.                                           *)

Changes(what) ==
  /\ changes > 0 /\ changes' = changes - 1
  /\ changed' = [t \in Threads |-> WhileRuns(t, changed[t] \cup what)]
  /\ since' = [t \in Threads |-> WhileHeld(t, since[t] \cup what)]

PageMoves ==
  /\ Changes({"shape"})
  /\ \E b \in BOOLEAN, v \in BOOLEAN :
       <<b, v>> # <<boxes, inView>> /\ PageIs(match, b, v) /\ boxes' = b /\ inView' = v
  /\ UNCHANGED <<match, open, ids, local, elemLive, ops>>

NodeChanges ==
  /\ Changes({"shape", "node"})
  /\ match' \in (Nodes \cup {None}) \ {match}
  /\ boxes' \in BOOLEAN /\ inView' \in BOOLEAN /\ PageIs(match', boxes', inView')
  /\ UNCHANGED <<open, ids, local, elemLive, ops>>

PageLeft ==
  /\ Changes({"shape", "node", "page"})
  /\ match' \in Nodes \cup {None}
  /\ boxes' \in BOOLEAN /\ inView' \in BOOLEAN /\ PageIs(match', boxes', inView')
  /\ rootOk' = [t \in Threads |-> FALSE] /\ foundOk' = [t \in Threads |-> FALSE]
  /\ elemOk' = [t \in Threads |-> FALSE] /\ elemLive' = [t \in Threads |-> FALSE]
  /\ UNCHANGED <<open, local, ops>>

Close ==
  /\ open /\ open' = FALSE
  /\ UNCHANGED <<match, boxes, inView, ids, local, elemLive, ops, changes, history>>

-----------------------------------------------------------------------------
Step(t) ==
  \/ GetDocument(t) \/ QuerySelector(t) \/ QuerySelectorAll(t) \/ PerformSearch(t)
  \/ GetSearchResults(t) \/ DescribeNode(t) \/ ResolveNode(t) \/ CheckVisibility(t)
  \/ CallOnElement(t) \/ FocusOn(t) \/ GetBoxModel(t) \/ GetComputedStyles(t)
  \/ ScrollIntoView(t) \/ GetContentQuads(t) \/ PollRectangle(t) \/ Dispatch(t)

Next ==
  \/ \E t \in Threads : Start(t) \/ Step(t) \/ Expire(t) \/ Return(t)
  \/ PageMoves \/ NodeChanges \/ PageLeft \/ Close

Spec == Init /\ [][Next]_vars

(* Chrome answers, or the connection ends the call (Transport); time       *)
(* passes.                                                                 *)
FairSpec == Spec /\ \A t \in Threads : WF_vars(Step(t)) /\ WF_vars(Expire(t))

-----------------------------------------------------------------------------
(* Properties.                                                             *)

LostIn(what) == ~open \/ Losses \cap what # {}

(* A wait fails early only if what it found is taken away under its hands: *)
(* a document that another thread gets, or an element that is not there,   *)
(* are not the end of it, except for waits on an element's xpath or on the *)
(* list of an xpath, whose finders do not tell a miss from other errors.   *)
(* It panics only on a node that Chrome gives no object for.               *)
Retried == Waits \ (ListXpath \cup {"waitVisible", "waitXpathIn"})
MissesAreRetried ==
  \A t \in Threads :
    op[t] \in Retried /\ outcome[t] \in {"missing", "error", "panic"} =>
      LostIn(changed[t]) \/ (outcome[t] = "panic" /\ found[t] \in Sparse)

(* A wait does not run out on an element that is there all the time, of a  *)
(* document that no other thread has got meanwhile.                        *)
WaitsMissNothing ==
  \A t \in Threads :
    op[t] \in Ops(TabWaits) /\ outcome[t] = "timeout" =>
      match = None \/ changed[t] # {} \/ ~open

(* What is returned as found is what the selector matches, unless that has *)
(* changed since the search began; only an element's find_elements and the *)
(* lists of an xpath, and the waits for them, return nothing.              *)
MayBeEmpty == ListXpath \cup {"findAllIn", "waitAllIn"}
FoundMatches ==
  \A t \in Threads :
    op[t] \in Finders /\ outcome[t] = "ok" =>
      \/ found[t] = None /\ op[t] \in MayBeEmpty
      \/ found[t] # None /\ (found[t] = match \/ Losses \cap changed[t] # {})

(* "backend_node_id and remote_object_id [...] are stable identifiers": an *)
(* action on an HTML element does not fail because this or another thread  *)
(* looks for other elements; it fails when the node or the page is gone,   *)
(* since the element was looked for, or, for a screenshot and for focus,   *)
(* its boxes are, or for focus that it cannot have.  get_computed_styles   *)
(* goes by the node_id, which is not stable.                               *)
HandlesAreStable ==
  \A t \in Threads :
    /\ op[t] \in Ops(Acts) \ {"styles"} /\ outcome[t] \in {"error", "panic"}
    /\ elem[t] \notin Sparse
    => \/ LostIn(since[t])
       \/ op[t] \in {"shot", "focus"} /\ (~boxes \/ "shape" \in changed[t])
       \/ op[t] = "focus" /\ elem[t] \notin Focusable

(* Where it clicks, hovers or types, the element is in view, if the page   *)
(* is still meanwhile.                                                     *)
InputIsInView ==
  \A t \in Threads :
    op[t] \in {"click", "hover", "type"} /\ outcome[t] = "ok" =>
      point[t] = "in" \/ "shape" \in changed[t]

(* The code panics only where an element's xpath has no results; where the *)
(* page is left or the connection lost while it polls for a midpoint; and  *)
(* where the node is Sparse: in Element::new for want of an object, and in *)
(* is_visible, get_inner_text, get_content and get_midpoint for want of a  *)
(* value.  Errors of Chrome's, expired waits and other threads' searches   *)
(* never make it panic.                                                    *)
UnwrapsValues == {"waitVisible", "read", "click", "hover", "type"}
PanicsAreKnown ==
  \A t \in Threads :
    outcome[t] = "panic" =>
      \/ op[t] \in {"xpathIn", "waitXpathIn"}
      \/ op[t] \in {"click", "hover", "type"} /\ (~open \/ "page" \in since[t])
      \/ op[t] \in Finders /\ found[t] \in Sparse
      \/ op[t] \in UnwrapsValues /\ elem[t] \in Sparse

(* Every operation ends, whatever the page and other threads do.           *)
OperationsEnd == \A t \in Threads : Running(t) ~> ~Running(t)
=============================================================================
