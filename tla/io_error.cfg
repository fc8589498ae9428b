CONSTANTS
  Freds = {f1, f2}
  Fds = {d1}
  Input = Input
  Output = Output
  Master = Master
  Null = Null
SYMMETRY IOSymmetry
SPECIFICATION SafeSpec
INVARIANTS
  OutputErrorKept
CHECK_DEADLOCK FALSE
