---------------------------- MODULE CallService ----------------------------
(***************************************************************************)
(* What Transport::call_method promises the threads that share it, without *)
(* ids, registries, sockets and channels.  Every call is on its own: it is *)
(* asked of Chrome once, while the service is open, and then waits for     *)
(* Chrome's reply or for the end of the service, of which every waiting    *)
(* call is told.  Waits that run out are not part of the promise.          *)
(***************************************************************************)
CONSTANT Callers

VARIABLES
  phase,   \* of the service: "open", "closed", "over"
  stage    \* of each caller's call

vars == <<phase, stage>>

Phases == {"open", "closed", "over"}
Stages == {"idle",       \* no call
           "called",     \* begun
           "asked",      \* Chrome has the request
           "lost",       \* ... and will not reply, or its reply is gone
           "replied",    \* the reply is on its way
           "answered",   \* the reply is there
           "refused",    \* the reply is there: the target is not
           "cancelled",  \* the end of the service is there
           "failing"}    \* the call is being taken back

TypeOK == phase \in Phases /\ stage \in [Callers -> Stages]

Init == phase = "open" /\ stage = [c \in Callers |-> "idle"]

Goes(c, from, to) ==
  /\ stage[c] \in from /\ \E s \in to : stage' = [stage EXCEPT ![c] = s]
  /\ UNCHANGED phase

Call(c)    == phase = "open" /\ Goes(c, {"idle"}, {"called"})
Ask(c)     == phase = "open" /\ Goes(c, {"called"}, {"asked", "lost"})
Reply(c)   == Goes(c, {"asked"}, {"replied"})
Deliver(c) == Goes(c, {"replied"}, {"answered", "refused"})
Fail(c)    == Goes(c, {"called", "refused", "cancelled"}, {"failing"})
Return(c)  == Goes(c, {"answered", "cancelled", "failing"}, {"idle"})

(* Requests and replies under way are lost with the connection.            *)
Lose ==
  /\ \E S \in SUBSET {c \in Callers : stage[c] \in {"asked", "replied"}} :
       stage' = [c \in Callers |-> IF c \in S THEN "lost" ELSE stage[c]]
  /\ UNCHANGED phase

Close == phase = "open" /\ phase' = "closed" /\ UNCHANGED stage

(* The end reaches every call that waits; one that has not asked yet may   *)
(* hear of it or find out by asking.                                       *)
Waiting(c) == stage[c] \in {"asked", "lost", "replied"}
Cancel ==
  /\ phase = "closed" /\ phase' = "over"
  /\ \E S \in SUBSET {c \in Callers : stage[c] = "called"} :
       stage' = [c \in Callers |-> IF Waiting(c) \/ c \in S THEN "cancelled" ELSE stage[c]]

Next ==
  \/ \E c \in Callers :
       Call(c) \/ Ask(c) \/ Reply(c) \/ Deliver(c) \/ Fail(c) \/ Return(c)
  \/ Lose \/ Close \/ Cancel

Spec == Init /\ [][Next]_vars

-----------------------------------------------------------------------------
(* Nobody waits for a service that is over, and nobody asks one that is    *)
(* closed: with these transitions, a call is never left alone.             *)
NobodyIsLeftWaiting == phase = "over" => \A c \in Callers : ~Waiting(c)
=============================================================================
