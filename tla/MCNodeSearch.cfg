\* Every tree of up to four nodes, with every set of matching nodes.
SPECIFICATION Spec
CONSTANTS
  Size = 4
  None = None
  NotAsked = NotAsked
INVARIANTS
  FindsTheFirst
\* A search ends.
CHECK_DEADLOCK FALSE
