\* An alarm and a scan that is dropped.
SPECIFICATION Spec
CONSTANTS
  a = a
  b = b
  c = c
  NoItem = NoItem
  Items = {a, b}
  Macros = {}
  Returning = {}
  Size = 2
  Requests = {}
  MaxRequests = 0
  MaxAlarms = 1
  Timeouts = FALSE
INVARIANTS
  NoScanLost
