SPECIFICATION Spec
CONSTANTS
  n1 = n1
  n2 = n2
  NoName = NoName
  Width = 2
  Texts <- Words
  TargetOf <- MCTargetOf
  Paths <- MCPaths
  Samples <- MCSamples
  Lengths <- MCLengths
  Records <- MCRecords
  RouteTables <- MCRouteTables
  Stems = {1, 2, 3}
  Valid = {1, 2}
  Spellings = {0, 1, 2}
  Canonical = 2
  Directories <- MCDirectories
  LeaseFiles <- MCLeaseFiles
  Source = 0
  Identity <- MCIdentity
  MaxBody = 0
  Answers <- MCAnswers
  MaxAnswer = 5
  MaxPiece = 4
  MaxBuffer = 1
INVARIANT
  MessagesFit
CHECK_DEADLOCK FALSE
