SPECIFICATION Spec
CONSTANTS
  Place <- MCPlace
  Dist <- MCDist
  Grid <- MCGrid
  Spread <- MCSpread
  Probe <- MCProbe
  UnknownProbe = UnknownProbe
  RttLists <- MCRttLists
  MaxReports = 3
  TcpOverhead = 10
  HighRtt = 50
  Near = 5
  Wide = 20
  Bonuses = {0, 5, 15}
INVARIANTS
  TypeOK
  RatioMeansRejected
  CorrelationCovered
  SuspiciousIsFlagged
  VerdictIgnoresTies
  ConfirmedNeedsEvidence
CHECK_DEADLOCK FALSE
