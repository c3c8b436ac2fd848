\* One thread, the routing of events, and the browser's event thread ending.
SPECIFICATION FairSpec
CONSTANTS
  c1 = c1
  c2 = c2
  s1 = s1
  Callers = {c1, c2}
  Listeners = {Browser, s1}
  Browser = Browser
  None = None
  MaxCalls <- OneAlone
  MaxEvents = 1
  WaitsExpire = FALSE
  OuterFirst = FALSE
  Mortal = {Browser}
PROPERTIES
  EveryCallReturns
  ListenersAreReleased
\* Callers finish their calls, and the loop and the WebSocket thread end.
CHECK_DEADLOCK FALSE
