----------------------------- MODULE MCElements -----------------------------
(* Instances of Elements for TLC. *)
EXTENDS Elements

CONSTANTS t1, t2

(* One thread finds, acts in every way or looks for another element, and    *)
(* acts again; one gets the document.                                       *)
AllOps ==
  [t \in Threads |->
    IF t = t1 THEN <<Ops(TabFinds) \cup Ops(TabWaits), OnElement, {"hover", "shot", "read"}>>
    ELSE <<{"getDocument"}>>]
=============================================================================
