CONSTANTS
  Waiters = {f1, f2, f3}
  Posters = {c1}
  NoNode = NoNode
  MaxV = 3
  Mixed = TRUE
SYMMETRY WaiterSymmetry
SPECIFICATION MCSTimeoutSpec
INVARIANT RelinkAfterResume
CHECK_DEADLOCK FALSE
