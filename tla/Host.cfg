SPECIFICATION HostSpec
CHECK_DEADLOCK FALSE
CONSTANTS
  f1 = f1
  r1 = r1
  r2 = r2
  l1 = l1
  l2 = l2
  w1 = w1
  w2 = w2
  t1 = t1
  s1 = s1
  s2 = s2
  a1 = a1
  a2 = a2
  q1 = q1
  orchestrator = orchestrator
  p1 = p1
  p2 = p2
  Roots <- OneRoot
  Requests = {r1, r2}
  Loads = {l1, l2}
  MaxCache = 1
  MaxTreeEdits = 1
  NoKey = NoKey
  Workers = {w1, w2}
  Targets = {t1}
  Target <- OneTarget
  Cap = 1
  MaxRuns = 2
  MaxOtherEdits = 1
  MaxSessions = 2
  InTime = TRUE
  Sessions = {s1, s2}
  Actions = {a1, a2, q1}
  Questions = {q1}
  MaxEnds = 1
  Stopped = Stopped
  MaxExits = 2
  MaxLeaf = 1
  Agents = {w1, w2}
  Orchestrator = orchestrator
  MaxLog = 6
  MaxTokens = 2
  MidRun = FALSE
  Root <- Project
  Existing <- TheExisting
  Links <- TheLinks
  Secrets <- TheSecrets
  PathWords <- ThePathWords
  CodeWords <- TheCodeWords
  RefWords = {"origin/main"}
  Calls <- TheCalls
  Texts <- TheTexts
  Configurations <- TeamFiles
  SlugOf <- Slugs
  MaxConfigEdits = 1
  Absent = "none"
  Writers = {w1, w2}
  TeamPairs <- TwoPairs
  Levels = {"low"}
  MaxWrites = 2
  MaxRestarts = 1
  Unknown = Unknown
  Reviewers = {s1, s2}
  Projects = {p1, p2}
  ProjectOf <- OwnProject
  Nowhere = Nowhere
  MaxVerdicts = 2
  MaxForgets = 1
INVARIANTS
  PlanReadsSound
  BridgeIsSafe
  RestoredOnce
  ToolRulesHold
  TeamIsSound
  RecordsAreTrue
PROPERTIES
  DistillerIsSafe
  TasksEnd
