SPECIFICATION Spec
CONSTANTS
  m1 = m1
  m2 = m2
  mon = mon
  det = det
  fly = fly
  Motors = {m1, m2}
  Monitors = {mon}
  Detectors = {det}
  Flyers = {fly}
  Limits <- LimitsDef
  Scenarios <- ScansDef
  Threads = 2
  FlyPoints = 1
  MaxPolls = 1
INVARIANTS
  MovesAreAwaited
  PointsAreCounted
  Restored
  LimitsHold
  StagedWhileScanning
PROPERTIES
  ItemsEnd
