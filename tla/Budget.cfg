\* Two workers, one at a time; a worker cap of two tokens and a team cap of six,
\* throttle gates of three messages and two tokens.
CONSTANTS
  Agents = {a1, a2}
  Team = Team
  None = None
  WorkerCap = 2
  TeamCap = 6
  ContextCap = 2
  TeamContextCap = 3
  WarnPercent = 50
  MsgGate = 3
  TokGate = 2
  Policies <- TwoPolicies
  Nestings = {FALSE}
  Messages <- SmallMessages
  Contexts = {2}
  MaxSpend = 4
SPECIFICATION Spec
SYMMETRY AgentSymmetry
CHECK_DEADLOCK FALSE
INVARIANTS
  LedgerLag
  UsageOnRecord
  WarnedBeforeExhausted
PROPERTIES
  AdmissionSound
