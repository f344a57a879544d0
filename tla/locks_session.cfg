SPECIFICATION Spec
CONSTANTS
  t1 = t1
  t2 = t2
  Threads <- TwoThreads
  Requests = {"control", "query"}
  Budget = 1
INVARIANT NoDeadlock
CHECK_DEADLOCK FALSE
