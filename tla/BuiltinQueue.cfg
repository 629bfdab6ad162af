SPECIFICATION Spec
CONSTANTS
  a = a
  b = b
  c = c
  Pipelines <- MCSlotUsers
  NoOwner = NoOwner
  Own <- MCOwn
  Alloc <- MCAlloc
  FrameSizes = {3}
  QueueDepth = 2
  MaxEpoch = 4
  OneControlThread = TRUE
  ReadsOverlapClaims = FALSE
CHECK_DEADLOCK FALSE
INVARIANTS QueueIsOwn ReadsOwnEvents
PROPERTY BindingLostToClaim
