CONSTANTS
  Devices = {d1}
  Dimmers = {d1}
  Listeners = {l1}
  Samples <- OffMark
  Marks <- OneMark
  NoValue = NoValue
SPECIFICATION Spec
INVARIANT ChangeHandled
