\* Two threads call while the connection ends in any way; waits outlast it, and
\* Chrome answers SendMessageToTarget before the call it wraps.
SPECIFICATION Spec
CONSTANTS
  c1 = c1
  c2 = c2
  s1 = s1
  Callers = {c1, c2}
  Listeners = {}
  Browser = Browser
  None = None
  MaxCalls <- OneCallEach
  MaxEvents = 0
  WaitsExpire = FALSE
  OuterFirst = FALSE
  Mortal = {}
SYMMETRY CallerSymmetry
INVARIANTS
  NoPanic
  AnswersFindTheirCall
  NoAbandonedEntry
PROPERTIES
  CallsAreServed
\* Callers finish their calls, and the loop and the WebSocket thread end.
CHECK_DEADLOCK FALSE
