SPECIFICATION Spec
CONSTANTS
  a = a
  b = b
  c = c
  Pipelines <- MCSlotUsers
  NoOwner = NoOwner
  Own <- MCOwn
  Alloc <- MCAlloc
  FrameSizes = {3}
  QueueDepth = 1
  MaxEpoch = 2
  OneControlThread = TRUE
  ReadsOverlapClaims = TRUE
CHECK_DEADLOCK FALSE
INVARIANT ReadsOwnEvents
