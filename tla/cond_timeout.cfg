CONSTANTS
  Freds = {f1, f2}
  Null = Null
  Timer = Timer
  Queues = {mx, cd}
  Mx = mx
  Cd = cd
  MaxTime = 1
  Timeouts <- AllTimeouts
  Uses = {{"wait", "signal", "timed"}}
  WaitTimeouts = {1, 2}
SPECIFICATION CondSpec
INVARIANTS
  RemovedNodeQueued
CHECK_DEADLOCK FALSE
