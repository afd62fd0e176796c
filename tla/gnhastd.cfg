CONSTANTS
  l1 = l1
  l2 = l2
  a1 = a1
  d1 = d1
  power = power
  Listeners = {l1}
  Aluids = {a1}
  Channels <- BothChannels
  Generic = generic
  MaxSev = 2
  MaxOut = 3
  NoAlarm = NoAlarm
  Rates <- FeedRates
  MaxFeeds = 3
  Devices = {d1}
  Dimmers = {d1}
  Clients = {l1, l2}
  Samples <- Temperatures
  Marks <- MarkPairs
  NoValue = NoValue
  Uids = {"A", "B", "C"}
  FirstFile <- Nested
  MaxEdits = 3
  MaxStops = 1
  Cases <- Kinds
  MaxWire = 2
  MaxChanges = 1
  MaxLost = 1
SPECIFICATION Spec
INVARIANTS TypeOK HandlersKnow ListenersKnow FeedsOnTime GroupsSaved UnitAsAsked
PROPERTIES NotTooOften NothingForgotten Arrives
CHECK_DEADLOCK FALSE
