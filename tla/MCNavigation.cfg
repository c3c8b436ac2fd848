\* Two child frames come and go; the page navigates by itself, too.
SPECIFICATION Spec
CONSTANTS
  Main = Main
  Children = {k1, k2}
  Fragments = TRUE
  MaxLoads = 3
  MaxQueue = 4
SYMMETRY ChildSymmetry
INVARIANTS
  FlagSettles
PROPERTIES
  CalmWaitSeesLoad
\* Chrome may have loaded all it will, and the caller be done.
CHECK_DEADLOCK FALSE
