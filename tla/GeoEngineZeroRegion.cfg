SPECIFICATION Spec
CONSTANTS
  Place <- MCPlace
  Dist <- MCDist
  Grid <- MCGrid
  Spread <- MCSpread
  Probe <- MCProbe
  UnknownProbe = UnknownProbe
  RttLists <- MCRttLists
  MaxReports = 2
  TcpOverhead = 10
  HighRtt = 50
  Near = 5
  Wide = 20
  Bonuses = {0, 5, 15}
INVARIANT
  NeverZeroRegion
CHECK_DEADLOCK FALSE
