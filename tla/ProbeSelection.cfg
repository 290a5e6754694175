SPECIFICATION Spec
CONSTANTS
  knownProbes <- MCProbes
  regions <- MCRegions
  Region <- MCRegion
  Distances = {1, 2, 3, 5}
  MaxCount = 7
INVARIANTS
  TypeOK
  NoDuplicates
  AskedIsGiven
  NoneIsNearer
CHECK_DEADLOCK FALSE
