\* Two threads in register_missing_tabs race with the event thread;
\* one of the two pages goes to a devtools:// url.
SPECIFICATION Spec
CONSTANTS
  Pages = {p1, p2}
  Others = {}
  Foreign = {}
  Openers = {}
  Registrars = {r1, r2}
  None = None
  MaxChanges = 1
  DevtoolsUrls <- OneDevtools
  WaitsExpire = FALSE
SYMMETRY RegistrarSymmetry
INVARIANTS
  TypeOK
  ListIsCurrent
  EveryPageIsListed
  PoisonedOnlyAtTheEnd
\* The browser is dropped and its event thread ends.
CHECK_DEADLOCK FALSE
