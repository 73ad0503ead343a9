SPECIFICATION Spec
CONSTANTS
  Managers = {"a", "b"}
  Programs <- ProgramsDef
  Known = {"first", "second", "other", "broken"}
  Broken = {"broken"}
  Fits <- FitsDef
CHECK_DEADLOCK FALSE
INVARIANTS
  FitsAreRight
PROPERTIES
  WantedAreRun
