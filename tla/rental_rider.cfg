SPECIFICATION Spec

CONSTANTS
  b1 = b1
  b2 = b2
  b3 = b3
  u1 = u1
  u2 = u2
  o1 = o1
  o2 = o2
  Bikes = {b1, b2, b3}
  Fitted = {}
  Users = {u1}
  RideIds = {1, 2, 3, 4}
  ReservationIds = {}
  Operators = {}
  Assignable = {"available", "maintenance"}
  MaxActiveRides = 2
  Price = 1
  Overages = {0}
  InitialBalance = 4
  MayRestart = TRUE

INVARIANTS
  RidersKeepToTheirSlots

CHECK_DEADLOCK FALSE
