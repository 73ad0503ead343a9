\* Two scans, a step scan and a fly scan, whose readings and states overtake one another.
SPECIFICATION Spec
CONSTANTS
  s1 = s1
  s2 = s2
  d1 = d1
  d2 = d2
  base = base
  Scans = {s1, s2}
  Fly = {s2}
  Monitored = {d1, d2}
  Baseline = {base}
  Reports = {"paused", "closed", "aborted"}
  NumPoints = 1
  Workers = 2
  HistoryLength = 1
INVARIANTS
  StorageBounded
  ReadingsKept
  CompleteIsSent
PROPERTIES
  EmitsOnce
