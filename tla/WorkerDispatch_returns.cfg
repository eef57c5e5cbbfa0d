\* Nested delegation over a single slot, every worker with a timeout.
CONSTANTS
  lead = lead
  member = member
  helper = helper
  Agents = {lead, member, helper}
  Main = Main
  None = None
  Unset = Unset
  Calls = {c1, c2, c3}
  MayDelegate <- ChainTeam
  TimedAgents = {lead, member, helper}
  ParallelToolCalls = FALSE
  Overrides = {FALSE}
  Faults = {}
  Operator = {}
  MaxEpoch = 1
  MaxParallel = 1
  QueueSize = 2
SPECIFICATION Spec
CHECK_DEADLOCK FALSE
PROPERTIES
  CallReturns
