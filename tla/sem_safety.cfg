CONSTANTS
  Freds = {f1, f2, f3}
  Null = Null
  Timer = Timer
  Queues = {sem}
  Sem = sem
  Binary = TRUE
  InitCount = 0
  MaxPosts = 2
  MaxTime = 1
SYMMETRY FredSymmetry
SPECIFICATION SafeSpec
INVARIANTS
  IInv
  RunStateProtocol
  LinkedOnce
  TimerArmed
  BlockNodes
  NobodyForgotten
  NoSleeperWithPermit
CHECK_DEADLOCK FALSE
