\* Sessions may have several delegations open, the user aborts and ends sessions, and
\* the unguarded steps throw.  Two slots for three calls, two of which may race for one
\* worker.
CONSTANTS
  lead = lead
  member = member
  helper = helper
  Agents = {lead, member}
  Main = Main
  None = None
  Unset = Unset
  Calls = {c1, c2, c3}
  MayDelegate <- FlatTeam
  TimedAgents = {lead}
  ParallelToolCalls = TRUE
  Overrides = {FALSE}
  Faults = {"reload", "start", "load"}
  Operator = {"abort", "session"}
  MaxEpoch = 1
  MaxParallel = 2
  QueueSize = 1
SPECIFICATION Safety
SYMMETRY CallSymmetry
CHECK_DEADLOCK FALSE
INVARIANTS
  RunsHoldSlots
PROPERTIES
  QueueProtocol
