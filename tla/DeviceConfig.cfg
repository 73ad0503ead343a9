SPECIFICATION Spec
CONSTANTS
  Programs <- ProgramsDef
  Controllers = {"samy"}
  Unreachable = {"far"}
  Devices = {"samx", "samy", "new", "far"}
  Bad = 9
INVARIANTS
  InAgreement
  DeviceFollows
  EachIsAnswered
PROPERTIES
  Settles
