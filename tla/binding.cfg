SPECIFICATION BindingSpec

CONSTANTS
  Verifications = {a}
  AddCards = {b}
  Cards = {c}
  NoCard = NoCard
  Workers = {w1, w2}
  NoMethod = NoMethod
  MaxBindings = 2
  MaxThrows = 1
  MaxCrashes = 1

SYMMETRY BindingSymmetry

INVARIANTS
  OneRefundAtATime
  OneRowPerCard
  

CHECK_DEADLOCK FALSE
