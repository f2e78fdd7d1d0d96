SPECIFICATION Spec
CONSTANTS
  Conns = {c1}
  Nobody = Nobody
  MaxConnections = 1
PROPERTY
  AbandonsOnlyUndelivered
CHECK_DEADLOCK FALSE
