----------------------------- MODULE NodeSearch -----------------------------
(***************************************************************************)
(* Node::find of src/src/types.rs: a search for a node of a document, as   *)
(* the application runs it on Element::get_description and get_document.   *)
(*                                                                         *)
(* A tree is given by its nodes' parents.  Nodes are numbered breadth      *)
(* first, children in their order: every ordered tree has exactly one such *)
(* numbering, and the first match of a breadth-first search is the least.  *)
(***************************************************************************)
EXTENDS Naturals, FiniteSets, SequencesExt

CONSTANTS
  Size,    \* bound: nodes of the largest tree
  None,    \* Option::None
  NotAsked \* no search has been made

VARIABLES
  parent,    \* the document: each node's parent, the root's excepted
  matches,   \* the nodes for which the predicate holds
  item       \* SearchVisitor.item after a search, NotAsked before

vars == <<parent, matches, item>>

Nodes == 1..Size

Trees ==
  UNION {{p \in [2..n -> 1..n] :
            /\ \A i \in 2..n : p[i] < i
            /\ \A i, j \in 2..n : i < j => p[i] <= p[j]} : n \in Nodes}

Document == {1} \cup DOMAIN parent
Children(n) == SetToSortSeq({c \in DOMAIN parent : parent[c] = n}, <)

Init ==
  /\ parent \in Trees
  /\ matches \in SUBSET Document
  /\ item = NotAsked

-----------------------------------------------------------------------------
(* SearchVisitor::visit: the item left by a visit to n that found `before` *)
(* there.                                                                  *)
(* A node that matches replaces what an earlier sibling left.              *)
Visit ==
  LET visit[<<before, n>> \in (Document \cup {None}) \X Document] ==
        IF n \in matches THEN n
        ELSE IF before # None THEN before
        ELSE FoldLeft(LAMBDA found, c : visit[<<found, c>>], None, Children(n))
  IN visit

Find ==
  /\ item = NotAsked
  /\ item' = Visit[<<None, 1>>]
  /\ UNCHANGED <<parent, matches>>

Next == Find
Spec == Init /\ [][Next]_vars

-----------------------------------------------------------------------------
(* Node::find "Returns the first node for which the given closure returns  *)
(* true. Nodes are inspected breadth-first down their children."           *)
FindsTheFirst ==
  item # NotAsked =>
    IF matches = {} THEN item = None
    ELSE item \in matches /\ \A n \in matches : item <= n
=============================================================================
