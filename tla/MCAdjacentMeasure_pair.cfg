CONSTANTS
  N = 2
  Modulus = 5
  Measure = {1, 2}
SPECIFICATION Spec
INVARIANTS TypeOK VerdictIsRight ControllerFindsKeys
PROPERTIES AllEnd
CHECK_DEADLOCK FALSE
