SPECIFICATION ClockSpec

CONSTANTS
  Grace = 2
  Minute = 2
  Tariffs = {2, 3}
  MaxExtensions = 2
  MaxTime = 11

INVARIANTS
  CreditIsFrozenTime
  NothingBilledTwice
  EveryMinuteIsBilled
  DisplaysAreComplements

PROPERTIES
  BillIsWhatWasShown
  DeadlineMovesOnlyInFreePause

CHECK_DEADLOCK FALSE
