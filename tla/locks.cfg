SPECIFICATION FairSpec
CONSTANTS
  t1 = t1
  t2 = t2
  Threads <- TwoThreads
  Requests <- DataRequests
  Budget = 2
INVARIANTS TypeOK NoDeadlock
PROPERTY EveryRequestReturns
CHECK_DEADLOCK FALSE
