SPECIFICATION Spec
CONSTANTS
  Client = {alice, bob}
  ChallengeId = {c1, c2, c3}
  Goroutine = {g1, g2}
  TTL = 2
  TicksPerSecond = 2
  MaxTime = 4
  NoEntry = NoEntry
  NoChallenge = NoChallenge
  WrongToken = WrongToken
SYMMETRY Symmetry
INVARIANTS
  TypeOK
  SingleUse
  OnePlace
PROPERTIES
  AcceptanceIsEarned
  ImplementsLifecycle
