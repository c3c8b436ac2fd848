\* new_tab and register_missing_tabs, fairly scheduled; a worker target to
\* which another client is attached.
SPECIFICATION FairSpec
CONSTANTS
  Pages = {p1}
  Others = {w1}
  Foreign = {w1}
  Openers = {o1}
  Registrars = {r1}
  None = None
  MaxChanges = 1
  DevtoolsUrls = {}
  WaitsExpire = FALSE
INVARIANTS
  OpenedTabIsComing
PROPERTIES
  ListedTabIsFound
  EventThreadEnds
\* The browser is dropped and its event thread ends.
CHECK_DEADLOCK FALSE
