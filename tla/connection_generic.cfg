CONSTANTS
  Devices = {dev1}
  Reregisters = FALSE
  MaxOut = 3
  MaxCuts = 2
SPECIFICATION Spec
INVARIANTS InStep
CHECK_DEADLOCK FALSE
