\* Every session issues its delegations one at a time and nothing throws where the
\* code has no handler.  Two slots and a queue of one: the chain runs out of slots.
CONSTANTS
  lead = lead
  member = member
  helper = helper
  Agents = {lead, member, helper}
  Main = Main
  None = None
  Unset = Unset
  Calls = {c1, c2, c3}
  MayDelegate <- ChainTeam
  TimedAgents = {lead}
  ParallelToolCalls = FALSE
  Overrides = {TRUE, FALSE}
  Faults = {}
  Operator = {"abort"}
  MaxEpoch = 2
  MaxParallel = 2
  QueueSize = 1
SPECIFICATION Safety
SYMMETRY CallSymmetry
CHECK_DEADLOCK FALSE
INVARIANTS
  RunsAreAccounted
  ScopesFollowCalls
PROPERTIES
  ModeSwitchDrains
