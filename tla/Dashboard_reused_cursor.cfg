\* The telemetry of one of two sessions is deleted while the page is away.
CONSTANTS
  s1 = s1
  s2 = s2
  Sessions = {s1, s2}
  Kinds = {"usage"}
  MaxEvents = 3
  MaxLines = 3
  BatchLines = 1
  Inodes = {1}
  Worlds <- Deletion
  PageSize = 1
  BootSize = 3
  RingSize = 3
  WireSize = 3
  Racing = FALSE
  None = None
SPECIFICATION DashSafety
CHECK_DEADLOCK FALSE
INVARIANTS
  LiveMeansComplete
