SPECIFICATION WatchedSpec
CONSTANTS
  t1 = t1
  t2 = t2
  t3 = t3
  NoThread = NoThread
  Threads <- ThreeThreads
  Founders <- ThreeThreads
  NBatch = 1
  Lens = {1}
  Ops <- OneOp
  RawStates <- NormalAndFinal
  Budget = 2
  Unlimited = {t1}
  MaxCalls = 2
  Reentrant = {}
  Watchdogs = {t3}
PROPERTIES LockHandedOn CallsReturn WatchedRunsEnd
