CONSTANTS
  Clients = {c1, c2}
  Plain = {p1}
  Trackers = {t1}
  NoClient = NoClient
  NoDev = NoDev
  MaxDup = 1
  Watchable = {p1, t1}
  Contended = {p1, t1}
SPECIFICATION Spec
PROPERTIES NewcomerKeeps
