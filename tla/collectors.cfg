CONSTANTS
  MaxLost = 1
  MaxReadings = 2
  TooOld = 1
  MAX_THREE = 4
  MAX_WSEC = 4
  MAXGEMRETRY = 2
  MaxPackets = 3
  MAX_D30303_DEVS = 4
  DayLen = 32
  Half = 2
  Update = 8
  Suns <- OneDay
  N = 3
  MaxRain = 3
SPECIFICATION Spec
INVARIANTS TypeOK Truthful Introduced Configured
CHECK_DEADLOCK FALSE
