---------------------------- MODULE MCTransport ----------------------------
(* Instances of Transport for TLC. *)
EXTENDS CallRefinement, TLC

CONSTANTS c1, c2, s1

(* One call each; or one thread calling once or twice, so that an answer to *)
(* its first call can arrive during the second.                            *)
OneCallEach == [c \in Callers |-> 1]
OneAlone    == c1 :> 1 @@ c2 :> 0
TwoAlone    == c1 :> 2 @@ c2 :> 0

CallerSymmetry == Permutations(Callers)
=============================================================================
