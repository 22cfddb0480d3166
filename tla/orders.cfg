SPECIFICATION FairOrdersSpec

CONSTANTS
  TopUps = {t}
  HostedStarts = {h}
  SavedStarts = {s}
  Extensions = {e}
  Overages = {v}
  Workers = {w1, w2}
  NoOrder = NoOrder
  MaxOrders = 1
  MaxRides = 2
  MaxThrows = 2
  MaxCrashes = 1

INVARIANTS
  NothingForFree
  GrantedOnce
  ChargedOnce
  

PROPERTIES
  
  CapturedIsSettled

CHECK_DEADLOCK FALSE
