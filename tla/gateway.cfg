SPECIFICATION FairGatewaySpec

CONSTANTS
  Conns = {c1, c2}
  NoConn = NoConn
  Commands = {k}
  NoCommand = NoCommand
  MaxStops = 1

INVARIANTS
  RegistryIsSound
  RevokedIsCutOff
  OpeningsAreHeard

PROPERTIES
  StatusSettles

CHECK_DEADLOCK FALSE
