CONSTANTS
  Pids = {1, 2, 3}
  KillLimit = 1
  Long = 3
  Soon = 2
  Many = 1
  MaxFails = 3
  MaxHasty = 1
SPECIFICATION LiveSpec
INVARIANTS TypeOK OneInstance
PROPERTIES Mercy Recovers DeathSeen AlarmClears
