CONSTANTS
  N = 5
  Abortable = {2, 3, 5}
  Prompt = TRUE
SPECIFICATION FairSpec
INVARIANTS TypeOK EnoughAlive FusionSound FailsOnlyOnMajority
PROPERTIES MinorityCompletes
CHECK_DEADLOCK FALSE
