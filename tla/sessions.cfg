SPECIFICATION FairSpec
CONSTANTS
  Conns = {c1}
  Requests = {r1, r2, r3}
  Grants = {"a", "b"}
  Tables = {"collections", "embeddings"}
  Databases <- MCDatabases
  SkipAuth = FALSE
  MaxTx = 2
  None = None
INVARIANTS QueriesSeeTheirRows DenialsAreTheCallers SettingsEndWithTheTransaction NoConnectionLeaks
PROPERTY EveryRequestEnds
