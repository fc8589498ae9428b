CONSTANTS
  Freds = {f1, f2}
  Fds = {d1}
  Input = Input
  Output = Output
  Master = Master
  Null = Null
SYMMETRY IOSymmetry
SPECIFICATION SafeSpec
INVARIANTS
  EventKept
  PollerFibreKept
  RegistrationExact
  ConnectWaits
CHECK_DEADLOCK FALSE
