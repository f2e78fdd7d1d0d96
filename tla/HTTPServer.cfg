SPECIFICATION Spec
CONSTANTS
  Conns = {c1, c2, c3}
  Nobody = Nobody
  MaxConnections = 2
SYMMETRY Symmetry
INVARIANTS
  SlotsInv
  StoppedIsQuiet
PROPERTIES
  NoAddDuringWait
  RunningNotCutShort
CHECK_DEADLOCK FALSE
