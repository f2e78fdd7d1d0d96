SPECIFICATION Spec
CONSTANTS
  Daemons = {d1, d2, d3}
  Nothing = Nothing
  Foreign = Foreign
  MaxBinds = 4
SYMMETRY Symmetry
INVARIANTS
  SocketInv
PROPERTIES
  StaleNeverBlocks
