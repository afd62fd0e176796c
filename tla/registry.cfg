CONSTANTS
  Clients = {c1, c2}
  Plain = {p1, p2}
  Trackers = {t1}
  NoClient = NoClient
  NoDev = NoDev
  MaxDup = 2
  Watchable = {p1, t1}
  Contended = {p1, t1}
SPECIFICATION LiveSpec
INVARIANTS TypeOK OneList WatchersLive WatchCount OkHasConnection ServedByLive
PROPERTIES ImplementsOwnership OrphanedByOwner SilentIsFlagged DisconnectCloses
