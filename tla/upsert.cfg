SPECIFICATION FairSpec
CONSTANTS
  Clients = {c1, c2}
  MaxRows = 4
  Contents = {"A", "B", "C"}
  Batches <- MCBatches
  Untouched = Untouched
  NoValue = NoValue
INVARIANT TypeOK
PROPERTIES WritesAreAtomic WritesEnd
