\* One session, its log and one page.  Each behaviour has the mishaps of one set.
CONSTANTS
  s1 = s1
  s2 = s2
  Sessions = {s1}
  Kinds = {"usage", "tool"}
  MaxEvents = 3
  MaxLines = 2
  BatchLines = 1
  Inodes = {1, 2}
  Worlds <- Mishaps
  PageSize = 1
  BootSize = 2
  RingSize = 2
  WireSize = 2
  Racing = FALSE
  None = None
SPECIFICATION DashSpec
CHECK_DEADLOCK FALSE
INVARIANTS
  RowsAddUp
  NothingSkipped
  LiveMeansComplete
PROPERTIES
  LogsAreRead
  PageSettles
