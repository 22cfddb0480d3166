SPECIFICATION Spec

CONSTANTS
  b1 = b1
  b2 = b2
  b3 = b3
  u1 = u1
  u2 = u2
  o1 = o1
  o2 = o2
  Bikes = {b1}
  Fitted = {b1}
  Users = {u1, u2}
  RideIds = {1, 2}
  ReservationIds = {}
  Operators = {o1}
  Assignable = {"available", "maintenance"}
  MaxActiveRides = 2
  Price = 1
  Overages = {1}
  InitialBalance = 2
  MayRestart = TRUE

SYMMETRY Interchangeable

INVARIANTS
  OneActiveRidePerBike
  RentedBikeHasRide
  RefundMatchesCharge
  


  
  

CHECK_DEADLOCK FALSE
