SPECIFICATION Spec
SYMMETRY ClientSymmetry
CONSTANTS
  Clients = {c1, c2}
  Requests <- LifecycleRequests
  GrantSets <- LifecycleGrants
  MaxCollections = 2
  MaxRows = 4
  SkipAuth = FALSE
  NoValue = NoValue
  RawText = RawText
  Names <- MCNames
  Paths <- MCPaths
  PathOf <- MCPathOf
  Vectors <- MCVectors
  DimOf <- MCDimOf
  Stored <- MCStored
  Metas <- MCMetas
  Descriptions = {"d"}
INVARIANT RowsFitCollection
PROPERTY GrantsBoundChanges
PROPERTY ChecksCoverChanges
