SPECIFICATION Spec
CONSTANTS
  t1 = t1
  t2 = t2
  Threads <- MCThreads
  Values <- MCValues
  Fetch <- MCFetch
  Negate <- MCNegate
  Ops <- MCOps
  Programs <- MCPrograms
  Stale = {0}
  MaxOps = 2
PROPERTIES
  ImplementsAtomic
  OperationsReturn
CHECK_DEADLOCK FALSE
