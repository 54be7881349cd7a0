SPECIFICATION FairStreamSpec
CONSTANTS
  c1 = c1
  s1 = s1
  s2 = s2
  NoThread = NoThread
  Threads <- CallerAndStream
  Founders <- OneCaller
  Streams <- OneStream
  NBatch = 1
  Lens = {1}
  Ops <- OneOp
  RawStates <- NormalAndFinal
  Budget = 3
  Unlimited = {}
  MaxCalls = 1
  Reentrant = {}
  Buffer = 0
PROPERTIES CancelReleasesLock StreamEnds SessionFreed
\* Every task may end, every stream too: the system may stop.
CHECK_DEADLOCK FALSE
