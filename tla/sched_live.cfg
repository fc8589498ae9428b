CONSTANTS
  NumProcs = 2
  Outside = {}
  Freds = {f1, f2}
  Null = Null
  TSO = TRUE
  MaxSpin = 1
SPECIFICATION Spec
INVARIANTS
  FredOnce
PROPERTIES
  ReadyFredRuns
CHECK_DEADLOCK FALSE
