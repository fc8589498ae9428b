CONSTANTS
  NumProcs = 2
  Outside = {e}
  Freds = {f1, f2}
  Null = Null
  TSO = TRUE
  MaxSpin = 1
SYMMETRY FredSymmetry
SPECIFICATION SafeSpec
INVARIANTS
  NoFredStranded
CHECK_DEADLOCK FALSE
