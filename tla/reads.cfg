SPECIFICATION Spec
CONSTANTS
  Names = {1, 2, 3}
  Allowed = {1, 2}
  MaxId = 3
  Uuids = {1, 2}
  Contents = {1}
  Requests <- MCRequests
  MaxSearched = 1
  PageSize = 1
  MaxChanges = 2
  None = None
  Gone = Gone
INVARIANTS AnswersAreTruthful AnswersAreComplete QuietWalksAreExact
