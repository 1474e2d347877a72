CONSTANTS
  Node = {"a", "b"}
  Type = {"x", "y"}
  PeerList <- OneWay
  ConnectLimit = 1
  Timeouts = {0, 1}
  MaxSend = 2
  MaxGet <- OnlyB
  MaxFault = 1
  MaxPush = 3
SPECIFICATION FairSpec
INVARIANTS IInv AckedDelivered AckedInOrder AtMostOnceInOrder
PROPERTIES ImplementsMailbox GetReturns
CHECK_DEADLOCK FALSE
