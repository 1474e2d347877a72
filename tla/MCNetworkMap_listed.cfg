CONSTANTS
  Name = {"Node1", "Node2"}
  Address = {"p", "q"}
  Files <- SmallFiles
SPECIFICATION Spec
INVARIANTS TypeOK RegisteredPeers
PROPERTIES ListedRegisters
CHECK_DEADLOCK FALSE
