SPECIFICATION FairSpec
CONSTANTS
  NumBlocks = 4
  QueueSizes = {3, 5}
  MaxChunks = 8
INVARIANTS BlocksConserved WaitsForTheWire UnderrunIsAbsorbed
PROPERTY ProcessReturns
CHECK_DEADLOCK FALSE
