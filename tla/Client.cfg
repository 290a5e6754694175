SPECIFICATION FairSpec
CONSTANTS
  Place = {0, 1, 2}
  Dist <- MCDist
  TcpOverhead = 2
  Targets <- MCTargets
  Homes = {0}
  HandshakeCost = 1
  DialTimeout = 4
  Marker = 4
  PingCounts = {0, 3}
  TTLs = {8, 14}
  MaxDelay = 1
  NoMessage = NoMessage
INVARIANTS
  TypeOK
  HonestIsBelieved
  InTime
  ReportIsComplete
PROPERTY
  Finishes
CHECK_DEADLOCK FALSE
