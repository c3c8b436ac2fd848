\* A call times out, and Chrome's answer comes afterwards.
SPECIFICATION Spec
CONSTANTS
  c1 = c1
  c2 = c2
  s1 = s1
  Callers = {c1, c2}
  Listeners = {}
  Browser = Browser
  None = None
  MaxCalls <- OneAlone
  MaxEvents = 0
  WaitsExpire = TRUE
  OuterFirst = FALSE
  Mortal = {}
PROPERTIES
  AnswerKeepsConnection
\* Callers finish their calls, and the loop and the WebSocket thread end.
CHECK_DEADLOCK FALSE
