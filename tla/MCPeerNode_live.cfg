CONSTANTS
  Node = {"a", "b", "c"}
  Type = {"x"}
  PeerList <- Fan
  ConnectLimit = 1
  Timeouts = {0, 1}
  MaxSend = 2
  MaxGet <- NoGets
  MaxFault = 1
  MaxPush = 3
SPECIFICATION FairSpec
PROPERTIES SendReturns TimedSendReturns
CHECK_DEADLOCK FALSE
