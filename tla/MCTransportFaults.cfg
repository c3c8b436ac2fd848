\* One thread calls again after a call timed out, and the late answer comes;
\* answers overtake each other, and a tab's event thread may die.
SPECIFICATION Spec
CONSTANTS
  c1 = c1
  c2 = c2
  s1 = s1
  Callers = {c1, c2}
  Listeners = {s1}
  Browser = Browser
  None = None
  MaxCalls <- TwoAlone
  MaxEvents = 1
  WaitsExpire = TRUE
  OuterFirst = TRUE
  Mortal = {s1}
INVARIANTS
  TypeOK
  NoStrandedCall
  WaitersAreRegistered
  AtMostOneReply
  OwnAnswer
PROPERTIES
  NothingSentAfterClose
\* Callers finish their calls, and the loop and the WebSocket thread end.
CHECK_DEADLOCK FALSE
