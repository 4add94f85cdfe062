SPECIFICATION Spec
CONSTANTS
  Resources <- MCResources
  Base = "/"
  Collections = {"/a"}
  Names = {"a", "A"}
  ResourceOf <- MCResourceOf
  NormalOf <- MCNormalOf
  Actions = {"read", "update", "create"}
  Ours = "ours"
  Any = "*"
  Entries <- MCEntries
  Requests <- MCRequests
  SkipAuth = FALSE
  Anonymous = FALSE
  MaxChanges = 2
  None = None
INVARIANTS TouchedWasGranted RefusalsAreTrue HeldThroughoutIsInScope
