CONSTANTS
  Freds = {f1, f2}
  Null = Null
  Timer = Timer
  Queues = {sem}
  Sem = sem
  Binary = FALSE
  InitCount = 1
  MaxPosts = 2
  MaxTime = 1
SPECIFICATION Spec
INVARIANTS
  PermitsConserved
PROPERTIES
  ImplementsSemaphore
  TimedWaitEnds
CHECK_DEADLOCK FALSE
