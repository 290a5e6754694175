SPECIFICATION FairSpec
CONSTANTS
  Client = {alice}
  ChallengeId = {c1}
  Goroutine = {g1, g2}
  TTL = 1
  TicksPerSecond = 1
  MaxTime = 2
  NoEntry = NoEntry
  NoChallenge = NoChallenge
  WrongToken = WrongToken
  Nobody = Nobody
  Report <- AllReports
  NoRow = NoRow
  NoReply = NoReply
  MaxFailures = 1
  MaxCrashes = 1
INVARIANTS
  AnomaliesMatchRow
  AnsweredIsRecorded
PROPERTIES
  Drains
  CallsReturn
