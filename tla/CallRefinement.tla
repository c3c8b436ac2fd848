--------------------------- MODULE CallRefinement ---------------------------
(***************************************************************************)
(* The transport implements CallService: the stage of a call read off its  *)
(* caller's position, its channels, the loop's queue and what Chrome owes. *)
(***************************************************************************)
EXTENDS Transport

(* The activation whose answer the application gets.                       *)
Final(c) == IF Nested(c) THEN T(c) ELSE B(c)

OfThisCall(c, a) == a.from[1] = c /\ a.nth = made[c]
Reply(c, a)   == OfThisCall(c, a) /\ a.from = Final(c)
Refusal(c, a) == OfThisCall(c, a) /\ a.from = B(c) /\ Nested(c) /\ ~a.ok

Answers(s) == {s[i] : i \in {j \in DOMAIN s : s[j].type = "answer"}}
Delivered(c) == UNION {{inbox[f][i] : i \in DOMAIN inbox[f]} : f \in {B(c), T(c)}}

HasReply(c)   == \E a \in Answers(inbox[Final(c)]) : Reply(c, a)
HasRefusal(c) == \E a \in Answers(inbox[B(c)]) : Refusal(c, a)
HasEnd(c)     == Closed \in Delivered(c)
Returning(c)  == \E a \in Answers(msgs) : Reply(c, a) \/ Refusal(c, a)
Asked(c)      == \E r \in owed : Reply(c, r)

(* What there is to see of a call, the latest stage first.                 *)
Stage(c) ==
  IF pc[c] = "idle" THEN "idle"
  ELSE IF pc[c] \in {"unregister", "unregisterT"} THEN "failing"
  ELSE IF pc[c] \notin {"wait", "waitT"} THEN IF HasEnd(c) THEN "cancelled" ELSE "called"
  ELSE IF HasReply(c) THEN "answered"
  ELSE IF HasRefusal(c) THEN "refused"
  ELSE IF HasEnd(c) THEN "cancelled"
  ELSE IF Returning(c) THEN "replied"
  ELSE IF Asked(c) THEN "asked"
  ELSE "lost"

Phase == IF loop \in {"clear", "done"} THEN "over" ELSE IF open THEN "open" ELSE "closed"

Promise == INSTANCE CallService
             WITH phase <- Phase, stage <- [c \in Callers |-> Stage(c)]

(* Whatever ends the connection and whenever, each thread's call_method    *)
(* goes through the stages of CallService: asked only while open, returned *)
(* only with its own reply, a refusal or the end, and told of the end if   *)
(* it waits.                                                               *)
CallsAreServed == Promise!Spec
=============================================================================
