CONSTANTS
  N = 4
  Abortable = {2, 3, 4}
  Prompt = TRUE
SPECIFICATION Spec
INVARIANT EnoughAlive
CHECK_DEADLOCK FALSE
