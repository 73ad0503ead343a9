\* Two step scans of two points, one with enforce_sync: late points meet a scan that was written.
SPECIFICATION Spec
CONSTANTS
  s1 = s1
  s2 = s2
  p1 = p1
  p2 = p2
  d1 = d1
  Scans = {s1, s2}
  Fly = {}
  Reports = {"closed", "aborted"}
  Points = {p1, p2}
  Devices = {d1}
  Sync = {s1}
INVARIANTS
  WrittenOnce
  FileComplete
  NothingLeft
  
