SPECIFICATION SearchSpec
CONSTANTS
  Collections <- MCCollections
  Embeddings <- MCEmbeddings
  Shapes <- MCShapes
  Queries <- MCQueries
  IterativeScan = TRUE
  EfSearch = 1
  MaxEfSearch = 3
  RescoreMultiplier = 2
  RescoreMin = 1
  RescoreMax = 2
  Nothing = Nothing
INVARIANTS EmittedFormIsServed SearchesFill MergeIsGlobalTopK FarBoundOnlyCuts PoolsNotTruncated
