CONSTANTS
  b1 = b1
  b2 = b2
  b3 = b3
  k1 = k1
  k2 = k2
  p1 = p1
  c1 = c1
  charlie = charlie
  None = None
  Producer = {p1}
  Consumer = {c1, charlie}
  Broker = {b1, b2, b3}
  KeyServer = {k1, k2}
  Source <- LineSource
  Sink <- LineSink
  Wanted <- LineWanted
  Up <- LineUp
  Ks <- LineKs
  UpKs <- LineUpKs
  Maps <- LineMaps
  AesKey <- LineKey
  KeyDigits = 6
  Hra = TRUE
  MaxGen <- LineGen
  MaxKill = 1
SPECIFICATION FairSpec
INVARIANTS TypeOK RouteHasText KeptText OnlyAuthorizedRead AuthorizedRead PublishedIsServed
PROPERTIES ConsumerEnds
CHECK_DEADLOCK FALSE
