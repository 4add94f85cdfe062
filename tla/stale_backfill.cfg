SPECIFICATION Spec
CONSTANTS
  NTables = 1
  Texts <- MCTexts
  Rounded <- VectorTable
  Metas <- OneMeta
  Jsonb <- OneMetaJsonb
  Authzs = {"p"}
  MaxRows = 1
  BatchSize = 1
  MaxRuns = 1
  Writes = {"old_post", "new_update"}
  NoValue = NoValue
CHECK_DEADLOCK FALSE
PROPERTY OnlyNullsTouched
