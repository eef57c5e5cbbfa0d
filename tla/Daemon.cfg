\* Two processes, of one version or of two; a crash or a slow answer of the daemon, never
\* both, or a second session of the first process with a call of the first one pending.
CONSTANTS
  h1 = h1
  h2 = h2
  old = old
  new = new
  None = None
  Hosts = {h1, h2}
  Jobs <- FewJobs
  Nonces = {n1, n2}
  Builds = {old, new}
  Worlds <- FewWorlds
SPECIFICATION Spec
CHECK_DEADLOCK FALSE
INVARIANTS
  OneStartAtATime
  CredentialsMatch
  HeaderOfLiveSession
PROPERTIES
  DaemonsStayUsable
  EveryCallReturns
