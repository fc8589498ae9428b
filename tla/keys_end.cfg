CONSTANTS
  Fibres = {f1, f2}
  KeysMax = 4
SYMMETRY FibreSymmetry
SPECIFICATION SpecificSpec
INVARIANTS
  DestructorsCalled
CHECK_DEADLOCK FALSE
