SPECIFICATION Spec
CONSTANTS
  Key = {k1, unknown}
  Unknown = unknown
  Absent = Absent
  MaxRequests = 2
  Window = 2
  MaxTime = 5
  NoWindow = NoWindow
  Never = Never
INVARIANTS
  TypeOK
  BurstBound
  RefusalEarned
  WindowInv
