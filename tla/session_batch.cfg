SPECIFICATION Spec
CONSTANTS
  t1 = t1
  t2 = t2
  t3 = t3
  NoThread = NoThread
  Threads <- TwoThreads
  Founders <- OneThread
  NBatch = 2
  Lens = {1, 2}
  Ops <- SomeOps
  RawStates <- AllRawStates
  Budget = 2
  Unlimited = {}
  MaxCalls = 2
  Reentrant = {t1}
  Watchdogs = {}
INVARIANTS TypeOK OneCallInLibrary ClosureOfOwnRun RunningHasOwner NoUseAfterDestroy ReadsWhatWasWritten StallsOnlyReentered
PROPERTIES PanicReachesCaller ImplementsSerial
\* A closure that calls back into the session waits for ever.
CHECK_DEADLOCK FALSE
