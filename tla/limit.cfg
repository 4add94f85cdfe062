SPECIFICATION FairSpec
CONSTANTS
  MaxBody = 4
  MaxDepth = 2
  MaxPiece = 3
  MaxSent = 8
  Documents <- MCDocuments
  DepthOf <- MCDepthOf
  MaxWire = 3
  None = None
  Invalid = Invalid
INVARIANTS NothingAboveTheLimit BodiesAreTheClients DepthIsExact
PROPERTIES MiddlewareEnds
CHECK_DEADLOCK FALSE
