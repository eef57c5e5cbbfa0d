\* Two drains that share wakes, around runs that come and go.
CONSTANTS
  Agents = {a1}
  Rows = {r1, r2}
  Ticks = {t1, t2}
  RunSessions = {s1, s2}
  WakeSessions = {w1, w2}
  RespawnSessions = {n1}
  Commands = {"pause", "snapshot", "force-kill", "force-end", "tear-down-all"}
  Operator = {"mode"}
  Racing = TRUE
  None = None
SPECIFICATION Spec
CHECK_DEADLOCK FALSE
INVARIANTS
  WakesAreOwned
  HandlesAreOpen
PROPERTIES
  DrainEnds
