\* A thread that finds and acts, and one that gets the document beside it; one of
\* the nodes need not be an HTML element.
SPECIFICATION FairSpec
CONSTANTS
  t1 = t1
  t2 = t2
  Threads = {t1, t2}
  Nodes = {n1, n2}
  Sparse = {n2}
  Focusable = {n1}
  None = None
  OpsOf <- AllOps
  MaxChanges = 1
INVARIANTS
  TypeOK
  MissesAreRetried
  WaitsMissNothing
  FoundMatches
  HandlesAreStable
  InputIsInView
  PanicsAreKnown
PROPERTIES
  OperationsEnd
\* The threads have done what they may.
CHECK_DEADLOCK FALSE
