CONSTANTS
  N = 3
  Abortable = {1, 2, 3}
  Pace = {TRUE, FALSE}
  Limit = 2
SPECIFICATION Spec
INVARIANTS TypeOK JointKeys FusionSound OnlyDroppedRecovered
PROPERTIES OthersComplete
CHECK_DEADLOCK FALSE
