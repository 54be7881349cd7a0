SPECIFICATION QuietSpec
CONSTANTS
  c1 = c1
  s1 = s1
  s2 = s2
  NoThread = NoThread
  Threads <- CallerAndStreams
  Founders <- OneCaller
  Streams <- TwoStreams
  NBatch = 1
  Lens = {1}
  Ops <- OneOp
  RawStates <- NormalAndFinal
  Budget = 2
  Unlimited = {}
  MaxCalls = 1
  Reentrant = {}
  Buffer = 2
INVARIANTS DeliveredInOrder EndsWithResult StallsOnlyUnread
PROPERTIES ImplementsStreams
SYMMETRY Symmetry
\* Every task may end, every stream too: the system may stop.
CHECK_DEADLOCK FALSE
