CONSTANTS
  Freds = {f1, f2, f3}
  Null = Null
  Timer = Timer
  Queues = {mx, cd}
  Mx = mx
  Cd = cd
  MaxTime = 1
  Timeouts <- AllTimeouts
  Uses = {{"wait", "signal"}, {"wait", "timed"}, {"timedlock"}}
  WaitTimeouts = {1, 2}
SYMMETRY FredSymmetry
SPECIFICATION CondSpec
INVARIANTS
  MutexAlone
  MutualExclusion
  OwnerExact
  WaiterNoticed
  CondWaiters
PROPERTIES
  AcquireSucceeds
CHECK_DEADLOCK FALSE
