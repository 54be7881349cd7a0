SPECIFICATION Spec
CONSTANTS
  Absent = Absent
  Disk <- SomePlaces
  Opaque <- HiddenPlaces
  Environments <- SomeEnvironments
  ExeDirs <- Beside
  Cache <- LoaderDirs
  Exports <- SomeExports
  MaxChanges = 1
INVARIANTS LoadingTypeOK EachFileOnce BestFirst RuntimeIsWhole
\* The search may end with nothing found and nothing to open.
CHECK_DEADLOCK FALSE
