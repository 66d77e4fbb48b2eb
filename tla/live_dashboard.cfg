SPECIFICATION PageSpec
CONSTANTS
  Publishers = {p1, p2}
  Subscribers = {s1}
  Capacity = 1
CHECK_DEADLOCK FALSE
INVARIANTS PageInv NoSignalLost
PROPERTY SignalledIsShown
