SPECIFICATION OrdersSpec

CONSTANTS
  TopUps = {}
  HostedStarts = {}
  SavedStarts = {}
  Extensions = {e}
  Overages = {}
  Workers = {w1, w2}
  NoOrder = NoOrder
  MaxOrders = 1
  MaxRides = 1
  MaxThrows = 0
  MaxCrashes = 0

INVARIANT
  ExtendedOnce

CHECK_DEADLOCK FALSE
