SPECIFICATION Spec
CONSTANTS
  Processes <- ProcessesDef
  NameOf <- NameOfDef
  Unique = {"DeviceServer", "ScanServer"}
  Awaited <- AwaitedDef
  Expire = 4
  Refresh = 2
  Timeout = 5
  Scenarios <- ScenariosDef
INVARIANTS
  KeysAreTrue
  
PROPERTIES
  WaitsEnd
