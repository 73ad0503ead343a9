SPECIFICATION Spec
CONSTANTS
  Programs <- ProgramsDef
CHECK_DEADLOCK FALSE
INVARIANTS
  
  ShownCompletely
  CallbackSeesAll

  
