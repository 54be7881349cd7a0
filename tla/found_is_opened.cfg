SPECIFICATION Spec
CONSTANTS
  Absent = Absent
  Disk <- SomePlaces
  Opaque <- HiddenPlaces
  Environments <- SomeEnvironments
  ExeDirs <- Beside
  Cache <- LoaderDirs
  Exports <- SomeExports
  MaxChanges = 0
INVARIANTS FoundIsOpened
\* The search may end with nothing found and nothing to open.
CHECK_DEADLOCK FALSE
