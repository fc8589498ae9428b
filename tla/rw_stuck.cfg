CONSTANTS
  Freds = {f1, f2, f3}
  Null = Null
  Timer = Timer
  Queues = {rd, wr}
  Rd = rd
  Wr = wr
  MaxTime = 1
  Timeouts = {1, 2}
SYMMETRY FredSymmetry
SPECIFICATION RWSpec
INVARIANTS
  NobodyWaitsOnOpenLock
CHECK_DEADLOCK FALSE
