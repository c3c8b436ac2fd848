\* register_missing_tabs and new_tab.
SPECIFICATION Spec
CONSTANTS
  Pages = {p1, p2}
  Others = {}
  Foreign = {}
  Openers = {o1}
  Registrars = {r1}
  None = None
  MaxChanges = 0
  DevtoolsUrls = {}
  WaitsExpire = FALSE
INVARIANTS
  OpenedTabIsListedOnce
\* The browser is dropped and its event thread ends.
CHECK_DEADLOCK FALSE
