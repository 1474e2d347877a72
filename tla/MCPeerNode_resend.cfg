CONSTANTS
  Node = {"a", "b"}
  Type = {"x", "y"}
  PeerList <- OneWay
  ConnectLimit = 1
  Timeouts = {0, 1}
  MaxSend = 2
  MaxGet <- OnlyB
  MaxFault = 0
  MaxPush = 3
SPECIFICATION Spec
INVARIANT NoResendAfterAck
CHECK_DEADLOCK FALSE
