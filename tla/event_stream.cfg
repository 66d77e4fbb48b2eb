SPECIFICATION Spec
CONSTANTS
  Publishers = {p1, p2, p3}
  Subscribers = {s1, s2}
  Capacity = 2
CHECK_DEADLOCK FALSE
INVARIANTS IInv NoHiddenGap UniqueIds
PROPERTIES LaterIdsAreGreater DeliveredOrDisconnected
