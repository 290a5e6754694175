SPECIFICATION Spec
CONSTANTS
  Name = {"A", "B", "C", "D", "r1", "r2", "r3", "r4", "x", "y"}
  Place <- MCPlace
  Dist <- MCDist
  Origin = 0
  Probe = {"pa", "pb", "pc"}
  At <- MCAt
  ProbeToCity <- MCProbeToCity
  NoCity = "none"
  Scale = 200
  Tie = 2
  NoFile = NoFile
  Unreadable = Unreadable
  Files <- MCFiles
  Embedded <- MCEmbedded
  RipeProbe = {"r1", "r2", "r3", "r4"}
  Address = {"x", "y"}
  RipeAt <- MCRipeAt
  RipeResults <- MCRipeResults
  IDs <- MCIDs
  Submissions <- MCSubmissions
  NoReply = NoReply
INVARIANT RipeIsSuitable
