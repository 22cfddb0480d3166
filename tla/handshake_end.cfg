SPECIFICATION HandshakeSpec

CONSTANTS
  Taps = {1}
  Reports = {1, 2}
  UnlockMayFail = TRUE
  MayRepeat = FALSE
  MayRestart = TRUE

INVARIANTS
  PausedMeansClosed


  

CHECK_DEADLOCK FALSE
