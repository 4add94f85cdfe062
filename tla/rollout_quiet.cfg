SPECIFICATION Spec
CONSTANTS
  NTables = 2
  Texts <- MCTexts
  Rounded <- TwoTables
  Metas <- ThreeMetas
  Jsonb <- ThreeMetasJsonb
  Authzs = {"p"}
  MaxRows = 3
  BatchSize = 2
  MaxRuns = 2
  Writes <- NoUpdates
  NoValue = NoValue
CHECK_DEADLOCK FALSE
INVARIANT HashesDescribeContent
INVARIANT CleanReportMeansNoTwins
PROPERTY CollisionsHonest
