SPECIFICATION FairSpec

CONSTANTS
  b1 = b1
  b2 = b2
  b3 = b3
  u1 = u1
  u2 = u2
  o1 = o1
  o2 = o2
  Bikes = {b1}
  Fitted = {}
  Users = {u1, u2}
  RideIds = {1, 2}
  ReservationIds = {1, 2}
  Operators = {o1}
  Assignable = {"available", "maintenance"}
  MaxActiveRides = 2
  Price = 1
  Overages = {0}
  InitialBalance = 2
  MayRestart = FALSE

INVARIANTS
  OneActiveReservationPerBike

PROPERTIES
  RideKeepsItsBike
  HoldIsHonoured
  ReservedBikeIsFreed

CHECK_DEADLOCK FALSE
