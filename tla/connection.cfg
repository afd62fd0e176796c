CONSTANTS
  Devices = {dev1, dev2}
  Reregisters = TRUE
  MaxOut = 4
  MaxCuts = 3
SPECIFICATION LiveSpec
INVARIANTS TypeOK InStep Tracked
PROPERTIES ComesBack
CHECK_DEADLOCK FALSE
