\* One drain at a time and every command; the process may die between any two steps.
CONSTANTS
  Agents = {a1}
  Rows = {r1, r2}
  Ticks = {t1}
  RunSessions = {s1, s2}
  WakeSessions = {w1, w2}
  RespawnSessions = {n1}
  Commands = {"end", "compact", "pause", "snapshot", "resume", "respawn", "restore", "abort-compaction",
              "force-kill", "force-end", "tear-down-all", "hive_reload_agent_config"}
  Operator = {"crash", "session", "mode"}
  Racing = FALSE
  None = None
SPECIFICATION Safety
SYMMETRY Symmetry
CHECK_DEADLOCK FALSE
INVARIANTS
  RowsAnsweredOnce
PROPERTIES
  InFileOrder
