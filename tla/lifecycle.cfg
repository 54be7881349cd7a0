SPECIFICATION Spec
CONSTANTS
  a = a
  b = b
  Unset = Unset
  Sessions <- TwoSessions
  Batches <- SomeBatches
  Defaults <- SomeDefaults
  Lens <- SomeLens
INVARIANTS LifecycleTypeOK SessionIsWhole HookFindsItself TokensWithinRoom BatchAgrees NothingLeft
PROPERTIES HonoursContract
SYMMETRY Symmetry
