\* One operation of two threads and of a callback each, every pair of them;
\* calls may time out.
SPECIFICATION FairSpec
CONSTANTS
  a = a
  b = b
  E = E
  h = h
  n = n
  Clients = {a, b}
  EventThread = E
  Callbacks = {h}
  Names = {n}
  Requests = {r}
  None = None
  OpsOf <- AllOps
  MaxOps <- OneEach
  MaxPageCalls = 1
  CallsExpire = TRUE
INVARIANTS
  TypeOK
  RemovedStaysSilent
  ExposedFunctionsAreSafe
  EveryHandlerSeesTheResponse
PROPERTIES
  PausedIsReleased
  OperationsReturn
\* The application and the page may have done all they will.
CHECK_DEADLOCK FALSE
