CONSTANTS
  c1 = c1
  c2 = c2
  Conns = {c1, c2}
  NoConn = NoConn
  MaxQueue = 1
  MaxFaults = 2
SPECIFICATION FairSpec
INVARIANTS IInv ConnectedIsLive EndedAtMostOnce
PROPERTIES Heals GhostSettles ShutdownCompletes
CHECK_DEADLOCK FALSE
