\* Failing scans and rejected requests.
SPECIFICATION FairSpec
CONSTANTS
  a = a
  b = b
  c = c
  NoItem = NoItem
  Items = {a, b}
  Macros = {}
  Returning = {a}
  Size = 2
  Requests = {"abort", "continue", "halt", "restart"}
  MaxRequests = 1
  MaxAlarms = 1
  Timeouts = FALSE
INVARIANTS
  UniqueScanNumbers
PROPERTIES
  RestartGoesOn
