SPECIFICATION FairStreamSpec

CONSTANTS
  a1 = a1
  a2 = a2
  Guest = Guest
  c1 = c1
  c2 = c2
  NoConn = NoConn
  Accounts = {a1, a2}
  Conns = {c1}
  MaxChanges = 1
  MaxLogins = 1
  MaxFaults = 1

INVARIANTS
  LastStateWins
  OwnRidesOnly

PROPERTIES
  RevokedStreamCloses
  TabCatchesUp
