CONSTANTS
  N = 3
  Abortable = {}
  Prompt = FALSE
SPECIFICATION Spec
INVARIANT FusionSound
CHECK_DEADLOCK FALSE
