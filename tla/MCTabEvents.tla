---------------------------- MODULE MCTabEvents ----------------------------
(* Instances of TabEvents for TLC. *)
EXTENDS TabEvents, TLC

CONSTANTS a, b, E, h, n

(* One thread sets something up, another interferes with it, and so may a  *)
(* callback on the event thread, as those of the examples and tests do.    *)
SetUp ==
  [do : {"add"}, in : {"responses", "listeners"}, what : {h}]
    \cup [do : {"fetch"}, what : {"auth"}]
    \cup [do : {"expose"}, what : {n}]
Interfere ==
  [do : {"unexpose", "evaluate"}, what : {n}]
    \cup [do : {"remove"}, in : {"listeners"}, what : {h}]
    \cup {[do |-> "removeAll", in |-> "responses"]}
    \cup [do : {"intercept"}, what : {"fail"}]
    \cup {[do |-> "authenticate"]}
InCallback ==
  {[do |-> "fetch", what |-> "off"], [do |-> "dialog"], [do |-> "body"], [do |-> "expose", what |-> n],
   [do |-> "add", in |-> "failures", what |-> h]}

AllOps == a :> SetUp @@ b :> Interfere @@ E :> InCallback
OneEach == a :> 1 @@ b :> 1 @@ E :> 1
=============================================================================
