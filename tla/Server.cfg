SPECIFICATION Spec
CONSTANTS
  Client = {alice, bob}
  ChallengeId = {c1, c2}
  Goroutine = {g1, g2}
  TTL = 1
  TicksPerSecond = 1
  MaxTime = 2
  NoEntry = NoEntry
  NoChallenge = NoChallenge
  WrongToken = WrongToken
  Nobody = Nobody
  Report <- TwoReports
  NoRow = NoRow
  NoReply = NoReply
  MaxFailures = 1
  MaxCrashes = 1
SYMMETRY Symmetry
INVARIANTS
  TypeOK
  KeyIsFree
  RowsAreEarned
PROPERTY
  UsesManager
