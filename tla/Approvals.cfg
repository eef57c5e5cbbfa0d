SPECIFICATION Spec
CONSTANTS
    Artifacts <- Path
    Settled <- AboveTasks
    Texts = {t1, t2}
    Missing = Missing
    Nonces = {n1, n2}
    Requests = {r1, r2}
    Reviewers = {v1}
    Reported = {"yellow", "red"}
    MaxEdits = 1
    MaxCrashes = 1
CHECK_DEADLOCK FALSE
SYMMETRY Symmetry
INVARIANTS
  OpenGateWasDecided
  DenialReachesDownstream
PROPERTIES
  ReadyWhenApproved
