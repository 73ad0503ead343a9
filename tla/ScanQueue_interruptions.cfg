\* Two requests at every point of a scan and a scan definition.
SPECIFICATION FairSpec
CONSTANTS
  a = a
  b = b
  c = c
  NoItem = NoItem
  Items = {a, b}
  Macros = {b}
  Returning = {a}
  Size = 3
  Requests = {"pause", "deferred_pause", "continue", "abort", "halt"}
  MaxRequests = 2
  MaxAlarms = 0
  Timeouts = FALSE
INVARIANTS
  WorkerOnHead
  CompletedWasClosed
  OneLossPerInterruption
PROPERTIES
  Sequential
  StartedEnds
