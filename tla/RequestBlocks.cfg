SPECIFICATION Spec
CONSTANTS
  Queues = {"primary", "second"}
  Available <- AvailableDef
  Kinds <- KindsDef
  Devices = {"", "on", "off"}
  Disabled = {"off"}
  Clients <- ClientsDef
  MaxRestarts = 1
INVARIANTS
  PredictedIsOpened
  UniqueNumbers
  ContextsHold

  
