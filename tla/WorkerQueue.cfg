\* Five calls compete for two slots and a queue of two, so that calls run, wait
\* and are refused at the same time.
CONSTANTS
  Calls = {c1, c2, c3, c4, c5}
  MaxParallel = 2
  QueueSize = 2
  Unset = Unset
SPECIFICATION QueueSpec
INVARIANTS
  QueueIsSound
PROPERTIES
  NoOvertaking
  WaiterAnswered
  PoolSpec
