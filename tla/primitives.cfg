CONSTANTS
  Freds = {f1, f2, f3}
  Null = Null
  Timer = Timer
  Queues = {rd, wr}
  Rd = rd
  Wr = wr
  Mtx = rd
  Bar = rd
  MaxTime = 1
  Timeouts = {1, 2}
  MtxTimeouts = {1, 2}
  MaxNesting = 2
  GroupSizes = {2, 3}
  MaxRounds = 2
  MaxTimeouts = 1
  Targets = {2, 3}
  MaxWaits = 2
  NumProcs = 2
  Outside = {e}
  TSO = FALSE
  MaxSpin = 1
  Consumers = {c1, c2}
  Stub = Stub
  Posters = {c1}
  MaxV = 3
  Mixed = FALSE
  Group = 2
  MaxObjects = 4
  MaxPosts = 2
  Target = 2
  MaxTickets = 4
  MaxPauses = 2
  KeysMax = 3
  Sentinel = Sentinel
  Anchor = Anchor
  Batch = 2
  NSEC = 12
  USEC = 6
  MSEC = 2
  MaxSec = 3
SYMMETRY FredSymmetry
SPECIFICATION PrimitivesSpec
INVARIANTS
  RWStateCounts
  MutexHandedOver
  BarriersInGroups
  SemMutexSound
  FibreJoinSafe
  NoFredStranded
  CountersExact
  QueueExact
  NodesAlive
  WaitersServed
  ApiSound
  SpinSound
  PauseStops
  KeysKept
  DataExact
PROPERTIES
  ReleaseAlternates
  PopsInOrder
CHECK_DEADLOCK FALSE
