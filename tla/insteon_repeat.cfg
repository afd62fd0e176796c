CONSTANTS
  d1 = d1
  Devices <- OneDevice
  Members <- GroupOfOne
  Repeats = TRUE
  MaxAsks = 3
  MaxPresses = 0
  MaxAir = 2
  Delay = 1
SPECIFICATION Spec
INVARIANTS LastWins
