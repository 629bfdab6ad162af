SPECIFICATION FairSpec
CONSTANTS
  NumBlocks = 5
  QueueSize = 5
  BlockSets = 5
  FrameSets = 2
INVARIANTS BlocksConserved OverrunIsAbsorbed
PROPERTY ProcessReturns
