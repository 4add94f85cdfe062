SPECIFICATION Spec
CONSTANTS
  Clients = {"c1"}
  Requests <- BulkRequests
  GrantSets <- BulkGrants
  MaxCollections = 1
  MaxRows = 4
  SkipAuth = FALSE
  NoValue = NoValue
  RawText = RawText
  Names <- MCNames
  Paths <- MCPaths
  PathOf <- MCPathOf
  Vectors <- MCVectors
  DimOf <- MCDimOf
  Stored <- MCStored
  Metas <- MCMetas
  Descriptions = {"d"}
INVARIANT TypeOK
INVARIANT NoTwins
PROPERTY AnswerMatchesRequest
