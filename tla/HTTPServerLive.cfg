SPECIFICATION FairSpec
CONSTANTS
  Conns = {c1, c2}
  Nobody = Nobody
  MaxConnections = 1
PROPERTIES
  ConnectionsEnd
  StopCompletes
CHECK_DEADLOCK FALSE
