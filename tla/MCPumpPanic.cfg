SPECIFICATION Spec
CONSTANTS
  Pieces <- MCPieces
  Source <- MCSource
  MaxRead = 3
  BodyLimit = 2
INVARIANT
  PanicReported
