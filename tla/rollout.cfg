SPECIFICATION FairSpec
CONSTANTS
  NTables = 1
  Texts <- MCTexts
  Rounded <- OneTable
  Metas <- OneMeta
  Jsonb <- OneMetaJsonb
  Authzs = {"p"}
  MaxRows = 3
  BatchSize = 2
  MaxRuns = 2
  Writes <- AllWrites
  NoValue = NoValue
CHECK_DEADLOCK FALSE
INVARIANT TypeOK
INVARIANT ReportComplete
PROPERTY BackfillCompletes
