SPECIFICATION FairHandshakeSpec

CONSTANTS
  Taps = {1}
  Reports = {1, 2}
  UnlockMayFail = FALSE
  MayRepeat = TRUE
  MayRestart = FALSE

PROPERTIES
  LeavingEnds

CHECK_DEADLOCK FALSE
