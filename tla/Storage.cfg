SPECIFICATION Spec
CONSTANTS
  Client = {alice, bob}
  Goroutine = {g1, g2}
  Offset <- MCOffset
  Shift = 1
  NoRecord = NoRecord
  MaxTime = 4
  MaxRecords = 3
  Limits <- MCLimits
  Windows = {0, 1, 2, 3}
SYMMETRY Symmetry
INVARIANTS
  TypeOK
  HistoryIsNewest
  WindowIsCounted
CHECK_DEADLOCK FALSE
